---- MODULE Spec2Model ----
(***************************************************************************)
(* Authorization decision pipeline of celine-policies: the decision cache  *)
(* (engine/cache.py), the policy engine with its hot reload                *)
(* (engine/engine.py), the /authorize route (routes/authorize.py), the     *)
(* /reload route (routes/health.py) and the audit logger (audit/logger.py).*)
(***************************************************************************)
EXTENDS Integers, Sequences, FiniteSets, TLC

VARIABLES
    cache,      \* DecisionCache._cache: the TTLCache, entries in LRU order (head = least recently used)
    hits,       \* DecisionCache._hits
    misses,     \* DecisionCache._misses
    now,        \* the TTLCache timer (time.monotonic), in ticks
    last,       \* the last DecisionCache call and what it returned
    eng,        \* PolicyEngine: _engine (the regorus Engine's content), _policy_count, _known_packages, _loaded
    lock,       \* PolicyEngine._lock: "free" or its holder
    ld,         \* the thread running PolicyEngine.load() for POST /reload
    req,        \* the threads serving POST /authorize, one per request id
    audit,      \* what AuditLogger has written, in order
    obs,        \* the last lock-free read of the engine (has_package, get_packages, policy_count)
    cfg,        \* the settings init_deps passes on: decision_cache_enabled, audit_enabled
    kr,         \* JWKSCache: _client, _last_fetch, _lock, beside the identity provider's keys
    jv,         \* the threads inside JWTValidator.validate, one per caller
    fn,         \* the last call of a pure function: its name, its arguments, what it returned
    mq          \* the MQTT endpoint being served (POST /acl, POST /superuser) and the broker's request

cacheVars == <<cache, hits, misses, now, last>>
engVars == <<eng, lock, ld, obs>>
pipeVars == <<req, audit>>
auxVars == <<fn, mq>>
optVars == <<cfg, kr, jv, auxVars>>
vars == <<cacheVars, engVars, pipeVars, optVars>>

(***************************************************************************)
(* Bounds of the model.                                                    *)
(***************************************************************************)
MaxSize == 2        \* DecisionCache(maxsize=...)
TtlSeconds == 2     \* DecisionCache(ttl_seconds=...), in ticks
MaxTime == 3        \* the clock stops here
MaxCalls == 2       \* Get calls counted by the hit/miss counters
MaxReloads == 1     \* POST /reload calls

None == "None"              \* Python's None where a string is expected
NoDecision == [none |-> TRUE]  \* Python's None where a Decision or a dict is expected

(***************************************************************************)
(* Policy inputs as the dict _build_input produces (and as the tests pass  *)
(* them to the cache): string-keyed, "environment" optional.  A dict is a  *)
(* TLA+ function, so two dicts are equal exactly when json.dumps with      *)
(* sort_keys=True prints them alike.                                       *)
(***************************************************************************)
Packages == {"celine.dataset.access", "celine.mqtt.acl"}
SubjectVals == {"null", "u1"}
Dataset1 == [type |-> "dataset", id |-> "d1"]
Topic1 == [type |-> "topic", id |-> "t1"]
ResourceVals == {Dataset1, Topic1}
ActionVals == {"read", "write"}
VolatileKeys == {"timestamp", "request_id", "trace_id"}
EnvKeys == VolatileKeys \cup {"tenant"}
EnvVals(k) == IF k = "request_id" THEN {"a", "b"}
              ELSE IF k = "timestamp" THEN {"1"}
              ELSE IF k = "trace_id" THEN {"x"}
              ELSE {"t1"}
Envs == UNION {{e \in [D -> {"a", "b", "1", "x", "t1"}] : \A k \in D : e[k] \in EnvVals(k)} :
               D \in SUBSET EnvKeys}

MkInput(s, r, a) == [subject |-> s, resource |-> r, action |-> a]
MkInputEnv(s, r, a, e) == [subject |-> s, resource |-> r, action |-> a, environment |-> e]
Inputs == {MkInput(s, r, a) : s \in SubjectVals, r \in ResourceVals, a \in ActionVals}
          \cup {MkInputEnv(x[1], x[2], x[3], x[4]) :
                x \in SubjectVals \X ResourceVals \X ActionVals \X Envs}

Decisions == {[allowed |-> b, reason |-> IF b THEN "ok" ELSE "denied", policy |-> p, filters |-> <<>>] :
              b \in BOOLEAN, p \in Packages}

(***************************************************************************)
(* DecisionCache._extract_stable_input and _make_key.                      *)
(***************************************************************************)
RestrictTo(f, D) == [k \in D |-> f[k]]

StableEnvDropTrace(env) == RestrictTo(env, DOMAIN env \ {"timestamp", "request_id"})
StableEnvKeepAll(env) == env
StableEnv(env) == RestrictTo(env, DOMAIN env \ {"timestamp", "request_id", "trace_id"})

ExtractDropAction(input_data) ==
    LET base == RestrictTo(input_data, DOMAIN input_data \cap {"subject", "resource"})
    IN base
extract_stable_input(input_data) ==
    LET base == RestrictTo(input_data, DOMAIN input_data \cap {"subject", "resource", "action"})
        hasEnv == "environment" \in DOMAIN input_data
                  /\ DOMAIN StableEnv(input_data["environment"]) # {}
    IN  IF hasEnv
        THEN [k \in DOMAIN base \cup {"environment"} |->
                 IF k = "environment" THEN StableEnv(input_data["environment"]) ELSE base[k]]
        ELSE base

\* f"{policy}:{sha256(f'{policy}:{json.dumps(stable, sort_keys=True)}')[:32]}": the
\* digest is taken as collision free, so a key is the pair it is computed from.
MakeKeyNoPolicy(policy, input_data) == <<"", extract_stable_input(input_data)>>
make_key(policy, input_data) == <<policy, extract_stable_input(input_data)>>

(***************************************************************************)
(* cachetools.TTLCache(maxsize, ttl) as DecisionCache uses it.             *)
(***************************************************************************)
Keys(c) == {c[n].key : n \in 1..Len(c)}
Entry(c, k) == c[CHOOSE n \in 1..Len(c) : c[n].key = k]
Without(c, k) == SelectSeq(c, LAMBDA e : e.key # k)
WithoutKey(keys, k) == SelectSeq(keys, LAMBDA u : u # k)

\* TTLCache.expire(time): drops every entry with not (time < expires)
ExpireOff(c, t) == c
Expire(c, t) == SelectSeq(c, LAMBDA e : t < e.expires)

\* TTLCache.__contains__
Live(c, t, k) == k \in Keys(c) /\ t < Entry(c, k).expires

\* Cache.__setitem__: while currsize + 1 > maxsize: popitem() -- the least
\* recently used entry goes
RECURSIVE Evict(_)
EvictOff(c) == c
Evict(c) == IF Len(c) >= MaxSize THEN Evict(Tail(c)) ELSE c

\* TTLCache.__setitem__
TTLSetNoRefresh(c, t, k, v, src) ==
    LET c1 == Expire(c, t)
    IN  IF k \in Keys(c1)
        THEN Without(c1, k) \o <<[key |-> k, value |-> v, expires |-> Entry(c1, k).expires, src |-> src]>>
        ELSE Evict(c1) \o <<[key |-> k, value |-> v, expires |-> t + TtlSeconds, src |-> src]>>
TTLSet(c, t, k, v, src) ==
    LET c1 == Expire(c, t)
        c2 == IF k \in Keys(c1) THEN Without(c1, k) ELSE Evict(c1)
    IN  c2 \o <<[key |-> k, value |-> v, expires |-> t + TtlSeconds, src |-> src]>>

\* Cache.get -> TTLCache.__getitem__: a live entry is returned and becomes the
\* most recently used; an expired or absent key gives the default and
\* changes nothing
TTLGetValueNoExpiry(c, t, k) == IF k \in Keys(c) THEN Entry(c, k).value ELSE NoDecision
TTLGetValue(c, t, k) == IF Live(c, t, k) THEN Entry(c, k).value ELSE NoDecision
TTLGetCacheNoTouch(c, t, k) == c
TTLGetCacheRenew(c, t, k) ==
    IF Live(c, t, k) THEN Without(c, k) \o <<[Entry(c, k) EXCEPT !.expires = t + TtlSeconds]>> ELSE c
TTLGetCache(c, t, k) == IF Live(c, t, k) THEN Without(c, k) \o <<Entry(c, k)>> ELSE c

(***************************************************************************)
(* DecisionCache.get / set / invalidate, each under self._lock.            *)
(***************************************************************************)
\* the calls so far, as a caller can count them: the keys still stored in
\* the order of their last use (a Set, or a Get that returned a Decision),
\* and the Get calls completed
Used(uses, k, c) == SelectSeq(WithoutKey(uses, k) \o <<k>>, LAMBDA u : u \in Keys(c))
Kept(uses, c) == SelectSeq(uses, LAMBDA u : u \in Keys(c))
\* `if result is not None`
IsHitAlways(result) == TRUE
IsHit(result) == result # NoDecision
CacheGet(policy, input_data) ==
    LET key == make_key(policy, input_data)
        result == TTLGetValue(cache, now, key)
    IN  /\ hits + misses < MaxCalls
        /\ cache' = TTLGetCache(cache, now, key)
        /\ hits' = IF IsHit(result) THEN hits + 1 ELSE hits
        /\ misses' = IF IsHit(result) THEN misses ELSE misses + 1
        /\ last' = [op |-> "get", policy |-> policy, input |-> input_data, result |-> result,
                    src |-> IF result # NoDecision THEN Entry(cache, key).src ELSE NoDecision,
                    at |-> now, evicted |-> 0, count |-> 0, key |-> key, gets |-> last.gets + 1,
                    uses |-> IF result # NoDecision THEN Used(last.uses, key, TTLGetCache(cache, now, key))
                             ELSE last.uses]
        /\ UNCHANGED now

CacheSet(policy, input_data, decision) ==
    LET key == make_key(policy, input_data)
    IN  /\ cache' = TTLSet(cache, now, key, decision, [policy |-> policy, input |-> input_data, at |-> now])
        /\ last' = [op |-> "set", policy |-> policy, input |-> NoDecision, result |-> NoDecision,
                    src |-> NoDecision, at |-> now, count |-> 0, key |-> key, gets |-> last.gets,
                    uses |-> Used(last.uses, key,
                                  TTLSet(cache, now, key, decision,
                                         [policy |-> policy, input |-> input_data, at |-> now])),
                    evicted |-> IF key \in Keys(Expire(cache, now))
                                THEN 0 ELSE Len(Expire(cache, now)) + 1 - Len(cache')]
        /\ UNCHANGED <<hits, misses, now>>

\* the keys of policy's entries start with f"{policy}:"
InvalidateClearsAll(c, t, policy) == <<>>
InvalidateKeeps(c, t, policy) ==
    IF policy = None THEN <<>> ELSE SelectSeq(Expire(c, t), LAMBDA e : e.key[1] # policy)
CacheInvalidate(policy) ==
    /\ cache' = InvalidateKeeps(cache, now, policy)
    /\ last' = [op |-> "invalidate", policy |-> policy, input |-> NoDecision, result |-> NoDecision,
                count |-> Len(Expire(cache, now)) - Len(InvalidateKeeps(cache, now, policy)),
                src |-> NoDecision, at |-> now, evicted |-> 0, key |-> <<>>, gets |-> last.gets,
                uses |-> Kept(last.uses, InvalidateKeeps(cache, now, policy))]
    /\ UNCHANGED <<hits, misses, now>>

\* DecisionCache.stats: size, hits, misses under self._lock
CacheStats ==
    /\ last.op # "stats"
    /\ last' = [op |-> "stats", policy |-> None, input |-> NoDecision, result |-> NoDecision,
                count |-> hits + misses, src |-> NoDecision, at |-> now, evicted |-> 0, key |-> <<>>,
                gets |-> last.gets, uses |-> last.uses]
    /\ UNCHANGED <<cache, hits, misses, now>>

Tick ==
    /\ now < MaxTime
    /\ now' = now + 1
    /\ UNCHANGED <<cache, hits, misses, last>>

NoCall == [op |-> "none", policy |-> None, input |-> NoDecision, result |-> NoDecision,
           src |-> NoDecision, at |-> 0, evicted |-> 0, count |-> 0, key |-> <<>>, gets |-> 0, uses |-> <<>>]

CacheInit ==
    /\ cache = <<>>
    /\ hits = 0
    /\ misses = 0
    /\ now = 0
    /\ last = NoCall

(***************************************************************************)
(* The policy source tree: rule files and data documents in the order      *)
(* rglob yields them.  What a rule file says is the external evaluator's   *)
(* business; three rule sets stand for it.                                 *)
(*   readonly: allow iff action.name = "read", reason "ok"                 *)
(*             (the policy of tests/test_policy_engine.py)                 *)
(*   members:  allow iff the subject is listed in the data document,       *)
(*             with a row filter                                           *)
(*   conflict: the allow query fails for action "write"                    *)
(*   label:    allow := "granted", a string rather than a boolean          *)
(*   quota:    allow := 1 for action "read" and 0 otherwise, a number      *)
(*   badreason, badfilters: readonly, with a reason / filters rule whose   *)
(*             query fails                                                 *)
(*   rows:     readonly, with a filters list of four elements: a complete  *)
(*             filter, an object without "field", a string, an object      *)
(*             without "value"                                             *)
(***************************************************************************)
Rego(pkg, rule) == [kind |-> "rego", pkg |-> pkg, rule |-> rule, ok |-> TRUE]
BadRego == [kind |-> "rego", pkg |-> None, rule |-> None, ok |-> FALSE]
DataDoc == [kind |-> "json", pkg |-> None, rule |-> None, ok |-> TRUE]
PkgDataset == "celine.dataset.access"
PkgMqtt == "celine.mqtt.acl"
Tree1 == <<Rego(PkgDataset, "readonly"), Rego(PkgMqtt, "readonly")>>
Tree2 == <<Rego(PkgDataset, "members"), Rego(PkgMqtt, "readonly"), DataDoc>>
Tree3 == <<Rego(PkgDataset, "conflict"), Rego(PkgMqtt, "readonly")>>
Tree4 == <<Rego(PkgDataset, "readonly"), BadRego, Rego(PkgMqtt, "readonly")>>
Trees == {Tree1, Tree2, Tree3, Tree4}
Items(tree) == {tree[n] : n \in 1..Len(tree)}
WellFormed(tree) == \A n \in 1..Len(tree) : tree[n].ok
PackagesOf(items) == {f.pkg : f \in {g \in items : g.kind = "rego" /\ g.ok}}

(***************************************************************************)
(* The regorus Engine: eval_query of data.<package>.allow / reason /       *)
(* filters against the rule files and data added so far.                   *)
(***************************************************************************)
RuleOf(content, pkg) ==
    IF \E f \in content : f.kind = "rego" /\ f.pkg = pkg
    THEN (CHOOSE f \in content : f.kind = "rego" /\ f.pkg = pkg).rule
    ELSE None
QueryAllow(content, pkg, input) ==
    LET rule == RuleOf(content, pkg)
    IN  IF rule \in {"readonly", "badreason", "badfilters", "rows"}
        THEN (IF input["action"] = "read" THEN "true" ELSE "false")
        ELSE IF rule = "members"
             THEN (IF input["subject"] = "u1" /\ DataDoc \in content THEN "true" ELSE "false")
        ELSE IF rule = "conflict"
             THEN (IF input["action"] = "write" THEN "error" ELSE "true")
        ELSE IF rule = "label" THEN "string"
        ELSE IF rule = "quota" THEN (IF input["action"] = "read" THEN "one" ELSE "zero")
        ELSE "undefined"
QueryReason(content, pkg, input) ==
    LET rule == RuleOf(content, pkg)
    IN  IF rule \in {"readonly", "badfilters"} THEN "ok"
        ELSE IF rule = "members"
             THEN (IF QueryAllow(content, pkg, input) = "true" THEN "member" ELSE "not a member")
        ELSE IF rule = "badreason" THEN "error"
        ELSE "undefined"
\* the value of the filters rule: a list whose elements are objects (records
\* of the keys they have) or something else
NotADict == [notdict |-> TRUE]
RowsList == <<[field |-> "owner", operator |-> "eq", value |-> "u1"],
              [operator |-> "eq", value |-> "u1"],
              NotADict,
              [field |-> "zone", operator |-> "ne"]>>
QueryFilters(content, pkg, input) ==
    LET rule == RuleOf(content, pkg)
    IN  IF rule = "members" /\ QueryAllow(content, pkg, input) = "true"
        THEN <<[field |-> "owner", operator |-> "eq", value |-> input["subject"]]>>
        ELSE IF rule = "rows" THEN RowsList
        ELSE <<>>
FiltersQueryFails(content, pkg, input) == RuleOf(content, pkg) = "badfilters"

\* PolicyEngine._extract_bool(result, False) and _extract_string(result, "")
ExtractBoolFailOpen(result) == result # "false"
extract_bool(result) == result \in {"true", "string", "one"}
extract_string(result) == IF result = "undefined" THEN "" ELSE result
\* PolicyEngine._extract_filters: a FilterPredicate for every element that
\* is a dict, with f.get("field", ""), f.get("operator", ""), f.get("value")
DictGet(f, key, default) == IF key \in DOMAIN f THEN f[key] ELSE default
IsDict(f) == "notdict" \notin DOMAIN f
FilterPredicate(f) == [field |-> DictGet(f, "field", ""), operator |-> DictGet(f, "operator", ""),
                       value |-> DictGet(f, "value", None)]
RECURSIVE extract_filters(_)
extract_filters(value) ==
    IF value = <<>> THEN <<>>
    ELSE (IF IsDict(Head(value)) THEN <<FilterPredicate(Head(value))>> ELSE <<>>)
         \o extract_filters(Tail(value))
\* try: filters = self._extract_filters(eval_query(filters_query))
\* except Exception: pass
TryFilters(content, pkg, input) ==
    IF FiltersQueryFails(content, pkg, input) THEN <<>>
    ELSE extract_filters(QueryFilters(content, pkg, input))

\* PolicyEngine.evaluate_decision, the part under self._lock: a Decision, or
\* the exception of the allow query
Raised == [raised |-> TRUE]
evaluate_decision(content, policy_package, input) ==
    IF QueryAllow(content, policy_package, input) = "error"
    THEN Raised
    ELSE IF QueryReason(content, policy_package, input) = "error"
    THEN Raised
    ELSE [allowed |-> extract_bool(QueryAllow(content, policy_package, input)),
          reason |-> extract_string(QueryReason(content, policy_package, input)),
          policy |-> policy_package,
          filters |-> TryFilters(content, policy_package, input)]

(***************************************************************************)
(* PolicyEngine.load(), run by POST /reload: under self._lock it replaces  *)
(* the Engine, zeroes the count and the package set, then adds the rule    *)
(* files and the data documents one by one; a malformed file raises        *)
(* PolicyEngineError out of load().                                        *)
(***************************************************************************)
Loaded(tree) == [content |-> Items(tree), policy_count |-> Len(SelectSeq(tree, LAMBDA f : f.kind = "rego")),
                 known_packages |-> PackagesOf(Items(tree)), loaded |-> TRUE, version |-> 0,
                 tree |-> tree, input |-> NoDecision]
Snapshot(e) == [content |-> e.content, policy_count |-> e.policy_count, known_packages |-> e.known_packages]
NotLoading == [pc |-> "idle", tree |-> <<>>, idx |-> 0, status |-> None,
               before |-> Snapshot(Loaded(<<>>)), complete |-> {}, succeeded |-> TRUE]
\* PolicyEngine.__init__: nothing loaded yet; init_deps calls load() next, and
\* version counts the POST /reload calls after it
Fresh == [Loaded(<<>>) EXCEPT !.loaded = FALSE, !.version = -1]

\* self._engine = Engine(); self._policy_count = 0; self._known_packages = set()
LoadBeginReset(e, tree) == [e EXCEPT !.content = {}, !.policy_count = 0, !.known_packages = {},
                                     !.version = e.version + 1, !.tree = tree, !.input = NoDecision]
LoadBegin(tree) ==
    /\ ld.pc # "loading"
    /\ lock = "free"
    /\ eng.version < MaxReloads
    /\ lock' = "reload"
    /\ eng' = LoadBeginReset(eng, tree)
    /\ ld' = [pc |-> "loading", tree |-> tree, idx |-> 1, status |-> None,
              before |-> Snapshot(eng), succeeded |-> ld.succeeded,
              complete |-> IF ld.pc = "idle" \/ ld.status = "success"
                           THEN eng.known_packages ELSE ld.complete]
    /\ UNCHANGED <<obs, cacheVars, pipeVars, optVars>>

\* _load_policies / _load_data: one file
AddItem(e, f) ==
    IF f.kind = "rego"
    THEN [e EXCEPT !.content = e.content \cup {f}, !.policy_count = e.policy_count + 1,
                   !.known_packages = e.known_packages \cup {f.pkg}]
    ELSE [e EXCEPT !.content = e.content \cup {f}]
LoadItem ==
    /\ ld.pc = "loading"
    /\ ld.idx <= Len(ld.tree)
    /\ IF ld.tree[ld.idx].ok
       THEN /\ eng' = AddItem(eng, ld.tree[ld.idx])
            /\ ld' = [ld EXCEPT !.idx = ld.idx + 1]
            /\ UNCHANGED lock
       ELSE \* raise PolicyEngineError; reload_policies answers {"status": "error"}
            /\ ld' = [ld EXCEPT !.pc = "returned", !.status = "error"]
            /\ lock' = "free"
            /\ UNCHANGED eng
    /\ UNCHANGED <<obs, cacheVars, pipeVars, optVars>>

LoadEnd ==
    /\ ld.pc = "loading"
    /\ ld.idx > Len(ld.tree)
    /\ eng' = [eng EXCEPT !.loaded = TRUE]
    /\ lock' = "free"
    /\ ld' = [ld EXCEPT !.pc = "returned", !.status = "success", !.succeeded = TRUE]
    /\ UNCHANGED <<obs, cacheVars, pipeVars, optVars>>

(***************************************************************************)
(* The reads that take no lock: has_package, get_packages, policy_count.   *)
(***************************************************************************)
has_package(e, package) == package \in e.known_packages
get_packages(e) == e.known_packages
NoRead == [op |-> "none", arg |-> None, answer |-> {}, loading |-> FALSE, old |-> {}, new |-> {}]
Observed(op, arg, answer) ==
    [op |-> op, arg |-> arg, answer |-> answer, loading |-> ld.pc = "loading",
     old |-> IF ld.pc = "loading" THEN ld.complete ELSE eng.known_packages,
     new |-> IF ld.pc = "loading" THEN PackagesOf(Items(ld.tree)) ELSE eng.known_packages]
ReadHasPackage ==
    /\ \E p \in Packages : obs' = Observed("has_package", p, {has_package(eng, p)})
    /\ UNCHANGED <<eng, lock, ld, cacheVars, pipeVars, optVars>>
ReadGetPackages ==
    /\ obs' = Observed("get_packages", None, get_packages(eng))
    /\ UNCHANGED <<eng, lock, ld, cacheVars, pipeVars, optVars>>

(***************************************************************************)
(* POST /authorize (routes/authorize.py), one thread per request id:       *)
(* build the PolicyInput, pick the package, CachedPolicyEngine             *)
(* .evaluate_decision (cache.get, PolicyEngine.evaluate_decision under the *)
(* engine lock, cache.set), audit, answer.                                 *)
(***************************************************************************)
Requests == {"a", "b"}
Questions == {<<"u1", Dataset1, "read">>, <<"u1", Dataset1, "write">>,
              <<"null", Dataset1, "read">>, <<"u1", Topic1, "read">>}
Twin1 == [type |-> "twin", id |-> "w1"]
\* PolicyAPI.evaluate_for_resource(policy_input, skip_cache)
ApiCalls == {[q |-> <<"u1", Dataset1, "read">>, skip |-> FALSE],
             [q |-> <<"u1", Dataset1, "read">>, skip |-> TRUE],
             [q |-> <<"u1", Dataset1, "write">>, skip |-> FALSE],
             [q |-> <<"u1", Twin1, "read">>, skip |-> FALSE]}
\* Settings: decision_cache_enabled, audit_enabled
Cfgs == [cache_enabled : BOOLEAN, audit_enabled : BOOLEAN]
DefaultCfg == [cache_enabled |-> TRUE, audit_enabled |-> TRUE]

NoResponse == [kind |-> "none"]
Idle == [pc |-> "idle", input |-> NoDecision, pkg |-> None, decision |-> NoDecision,
         cached |-> FALSE, raised |-> FALSE, response |-> NoResponse,
         startVersion |-> 0, evalVersion |-> 0, evalContent |-> {}, evalTree |-> <<>>,
         fresh |-> NoDecision, settled |-> FALSE,
         skip |-> FALSE, error |-> None, evaluated |-> NoDecision, undisturbed |-> FALSE, at |-> 0,
         header |-> [text |-> "unset", parts |-> 0, scheme |-> ""], token |-> NoDecision,
         op |-> None, seen |-> {}, allow |-> FALSE, reason |-> "", overtaken |-> FALSE]

\* except Exception: audit.log_error, then raise HTTPException(500) (the
\* route) or re-raise (PolicyAPI.evaluate)
ExceptNoLog(r) == "respond_error"
Except(r) == "log_error"
ErrorFailOpen(r) == [kind |-> "decision", allowed |-> TRUE, reason |-> ""]
ErrorResponse(r) == [kind |-> "error", status |-> 500, error |-> req[r].error]

\* _get_policy_package (the route) and policy_package_for_resource with
\* RESOURCE_POLICY_MAP (PolicyAPI): resource type -> package, None when the
\* type is not in the mapping
RouteTypes == {"dataset", "pipeline", "twin", "topic", "userdata"}
ApiTypes == {"dataset", "pipeline", "dt", "topic", "userdata"}
PolicyMap(type) ==
    IF type = "dataset" THEN PkgDataset
    ELSE IF type = "pipeline" THEN "celine.pipeline.state"
    ELSE IF type = "twin" THEN "celine.twin.access"
    ELSE IF type = "dt" THEN "celine.dt.access"
    ELSE IF type = "topic" THEN PkgMqtt
    ELSE "celine.userdata.access"
get_policy_package(resource) ==
    IF resource.type \in RouteTypes THEN PolicyMap(resource.type) ELSE None
policy_package_for_resource(resource) ==
    IF resource.type \in ApiTypes THEN PolicyMap(resource.type) ELSE None

\* the route: HTTPException(400) when the type is not mapped, raised before
\* the try block
Start(r) ==
    /\ req[r].pc = "idle"
    /\ \E q \in Questions :
          req' = [req EXCEPT ![r] =
                     IF get_policy_package(q[2]) = None
                     THEN [@ EXCEPT !.pc = "done",
                                    !.input = MkInputEnv(q[1], q[2], q[3], [request_id |-> r, timestamp |-> "1"]),
                                    !.error = "UnknownResourceType",
                                    !.response = [kind |-> "error", status |-> 400,
                                                  error |-> "UnknownResourceType"]]
                     ELSE [@ EXCEPT
                             !.pc = "lookup",
                             !.input = MkInputEnv(q[1], q[2], q[3], [request_id |-> r, timestamp |-> "1"]),
                             !.pkg = get_policy_package(q[2]),
                             !.startVersion = eng.version]]
    /\ UNCHANGED <<audit, cacheVars, engVars, optVars>>

\* PolicyAPI.evaluate_for_resource: PolicyPackageError when the type is not
\* mapped, raised before PolicyAPI.evaluate is entered
StartApi(r) ==
    /\ req[r].pc = "idle"
    /\ \E c \in ApiCalls :
          req' = [req EXCEPT ![r] =
                     IF policy_package_for_resource(c.q[2]) = None
                     THEN [@ EXCEPT !.pc = "done",
                                    !.input = MkInputEnv(c.q[1], c.q[2], c.q[3], [request_id |-> r, timestamp |-> "1"]),
                                    !.skip = c.skip,
                                    !.error = "PolicyPackageError",
                                    !.response = [kind |-> "error", status |-> 400,
                                                  error |-> "PolicyPackageError"]]
                     ELSE [@ EXCEPT
                             !.pc = "lookup",
                             !.input = MkInputEnv(c.q[1], c.q[2], c.q[3], [request_id |-> r, timestamp |-> "1"]),
                             !.pkg = policy_package_for_resource(c.q[2]),
                             !.skip = c.skip,
                             !.startVersion = eng.version]]
    /\ UNCHANGED <<audit, cacheVars, engVars, optVars>>

\* CachedPolicyEngine.evaluate_decision: try cache first
\*   if self._cache_enabled and not skip_cache
UseCacheAlways(r) == TRUE
UseCache(r) == cfg.cache_enabled /\ ~req[r].skip
Lookup(r) ==
    /\ req[r].pc = "lookup"
    /\ IF UseCache(r)
       THEN /\ CacheGet(req[r].pkg, req[r].input)
            /\ LET hit == TTLGetValue(cache, now, make_key(req[r].pkg, req[r].input))
               IN  req' = [req EXCEPT ![r] =
                             IF hit # NoDecision
                             THEN [@ EXCEPT !.pc = "log_decision", !.decision = hit, !.cached = TRUE,
                                            !.fresh = evaluate_decision(eng.content, req[r].pkg, req[r].input),
                                            !.settled = lock = "free" /\ eng.content = Items(eng.tree),
                                            !.undisturbed = TRUE, !.at = now]
                             ELSE [@ EXCEPT !.pc = "evaluate"]]
       ELSE /\ req' = [req EXCEPT ![r] = [@ EXCEPT !.pc = "evaluate"]]
            /\ UNCHANGED cacheVars
    /\ UNCHANGED <<audit, engVars, optVars>>

\* PolicyEngine.evaluate_decision: not loaded raises; otherwise the queries
\* run with self._lock held
Evaluate(r) ==
    /\ req[r].pc = "evaluate"
    /\ IF ~eng.loaded
       THEN req' = [req EXCEPT ![r] = [@ EXCEPT !.pc = Except(r), !.raised = TRUE,
                                                !.error = "PolicyEngineError"]]
       ELSE /\ lock = "free"
            /\ LET d == evaluate_decision(eng.content, req[r].pkg, req[r].input)
                   ran == [req[r] EXCEPT !.evalVersion = eng.version, !.evalContent = eng.content,
                                         !.evalTree = eng.tree, !.evaluated = d]
               IN  req' = [req EXCEPT ![r] =
                             IF d = Raised
                             THEN [ran EXCEPT !.pc = Except(r), !.raised = TRUE,
                                              !.error = "PolicyEngineError"]
                             ELSE [ran EXCEPT !.pc = "cache_set", !.decision = d]]
    /\ UNCHANGED <<audit, cacheVars, engVars, optVars>>

\* CachedPolicyEngine.evaluate_decision: cache result
\*   if self._cache_enabled and not skip_cache
Store(r) ==
    /\ req[r].pc = "cache_set"
    /\ IF UseCache(r)
       THEN /\ CacheSet(req[r].pkg, req[r].input, req[r].decision)
            /\ req' = [req EXCEPT ![r] = [@ EXCEPT !.pc = "log_decision", !.undisturbed = TRUE, !.at = now]]
       ELSE /\ req' = [req EXCEPT ![r] = [@ EXCEPT !.pc = "log_decision", !.undisturbed = TRUE, !.at = now]]
            /\ UNCHANGED cacheVars
    /\ UNCHANGED <<audit, engVars, optVars>>

\* AuditLogger.log_decision / log_error: one structlog event if self._enabled
EmitAlways(event) == <<event>>
Emit(event) == IF cfg.audit_enabled THEN <<event>> ELSE <<>>

\* audit.log_decision, then the AuthorizeResponse / EvaluationResult
LogDecision(r) ==
    /\ req[r].pc = "log_decision"
    /\ audit' = audit \o Emit([event |-> "policy_decision", request_id |-> r,
                               allowed |-> req[r].decision.allowed, cached |-> req[r].cached])
    /\ req' = [req EXCEPT ![r] = [@ EXCEPT !.pc = "respond"]]
    /\ UNCHANGED <<cacheVars, engVars, optVars>>
Respond(r) ==
    /\ req[r].pc = "respond"
    /\ req' = [req EXCEPT ![r] = [@ EXCEPT !.pc = "done",
                  !.response = [kind |-> "decision", allowed |-> req[r].decision.allowed,
                                reason |-> req[r].decision.reason]]]
    /\ UNCHANGED <<audit, cacheVars, engVars, optVars>>

LogError(r) ==
    /\ req[r].pc = "log_error"
    /\ audit' = audit \o Emit([event |-> "policy_error", request_id |-> r,
                               allowed |-> FALSE, cached |-> FALSE])
    /\ req' = [req EXCEPT ![r] = [@ EXCEPT !.pc = "respond_error"]]
    /\ UNCHANGED <<cacheVars, engVars, optVars>>
RespondError(r) ==
    /\ req[r].pc = "respond_error"
    /\ req' = [req EXCEPT ![r] = [@ EXCEPT !.pc = "done", !.response = ErrorResponse(r)]]
    /\ UNCHANGED <<audit, cacheVars, engVars, optVars>>

\* The structlog logger raises inside log_decision (self._logger.info /
\* warning): log_decision sits in the try block, so the handler's
\* except Exception takes over
SinkError == "AuditSinkError"
LogDecisionFails(r) ==
    /\ req[r].pc = "log_decision"
    /\ cfg.audit_enabled
    /\ req' = [req EXCEPT ![r] = [@ EXCEPT !.pc = Except(r), !.error = SinkError]]
    /\ UNCHANGED <<audit, cacheVars, engVars, optVars>>
\* The logger raises inside log_error (self._logger.error), called from the
\* except block: the logger's exception leaves the handler in place of the
\* HTTPException / the re-raise
LogErrorFails(r) ==
    /\ req[r].pc = "log_error"
    /\ cfg.audit_enabled
    /\ req' = [req EXCEPT ![r] = [@ EXCEPT !.pc = "done", !.error = SinkError,
                  !.response = [kind |-> "error", status |-> 500, error |-> SinkError]]]
    /\ UNCHANGED <<audit, cacheVars, engVars, optVars>>

(***************************************************************************)
(* auth/jwt.py: JWKSCache (the key ring) and JWTValidator.  The identity   *)
(* provider publishes signing keys by key id; PyJWKClient finds a token's  *)
(* key among those published when it looks, or raises PyJWKClientError.    *)
(***************************************************************************)
Callers == {"a", "b"}
JwksTtl == 1        \* JWKSCache(ttl_seconds=...), in ticks
Issuer == "iss1"    \* JWTValidator(issuer=...)
Audiences == {None, "aud1"}  \* JWTValidator(audience=...)
Kids == {"k1", "k2", "kx"}   \* k1 is published, k2 after a rotation, kx never

\* what validate() looks at in a token
GoodToken(kid) == [malformed |-> FALSE, kid |-> kid, sig |-> "ok", iss |-> Issuer,
                   exp |-> "valid", iat |-> "valid", sub |-> "u1", aud |-> "aud1"]
Malformed == [GoodToken("k1") EXCEPT !.malformed = TRUE]
KidTokens == {GoodToken(k) : k \in Kids} \cup {Malformed}
Tokens == [malformed : {FALSE}, kid : Kids, sig : {"ok", "bad"},
           iss : {Issuer, "other", "missing"}, exp : {"valid", "expired", "missing"},
           iat : {"valid", "invalid", "missing"}, sub : {"u1", "missing"},
           aud : {"aud1", "other", "missing"}] \cup {Malformed}

\* JWKSCache.__init__, with the keys the identity provider publishes and the
\* number of _refresh() calls so far
KrIdle == [client |-> 0, last_fetch |-> 0, lock |-> "free", refreshes |-> 0,
           idp |-> {"k1"}, audience |-> None]
NoCaller == [pc |-> "idle", token |-> NoDecision, first |-> None, second |-> None,
             ensured |-> 0, forced |-> 0, lookups |-> 0, exc |-> None, key |-> None, result |-> NoDecision,
             began |-> 0, beganAt |-> 0, overlapped |-> FALSE]

\* JWKSCache._refresh: a new PyJWKClient, _last_fetch = time.time()
refresh(k, t) == [k EXCEPT !.client = @ + 1, !.last_fetch = t, !.refreshes = @ + 1]
\* JWKSCache._ensure_client
EnsureClientAtTtl(k, t) ==
    IF k.client = 0 \/ (t - k.last_fetch) >= JwksTtl THEN refresh(k, t) ELSE k
ensure_client(k, t) ==
    IF k.client = 0 \/ (t - k.last_fetch) > JwksTtl THEN refresh(k, t) ELSE k
\* PyJWKClient.get_signing_key_from_jwt
get_signing_key_from_jwt(k, token) ==
    IF token.malformed THEN "DecodeError"
    ELSE IF token.kid \in k.idp THEN token.kid
    ELSE "PyJWKClientError"

InFlightCall(t) == jv[t].pc \notin {"idle", "returned"}
\* validate(token) is called
Call(t, tokens) ==
    /\ jv[t].pc = "idle"
    /\ \E token \in tokens :
          jv' = [u \in Callers |->
                    IF u = t
                    THEN [jv[t] EXCEPT !.pc = "waiting", !.token = token, !.began = kr.refreshes, !.beganAt = now,
                                       !.overlapped = \E w \in Callers \ {t} : InFlightCall(w)]
                    ELSE [jv[u] EXCEPT !.overlapped = @ \/ InFlightCall(u)]]
    /\ UNCHANGED <<kr, cfg, auxVars, cacheVars, engVars, pipeVars>>

\* get_signing_key: with self._lock: self._ensure_client()
Enter(t) ==
    /\ jv[t].pc = "waiting"
    /\ kr.lock = "free"
    /\ kr' = [ensure_client(kr, now) EXCEPT !.lock = t]
    /\ jv' = [jv EXCEPT ![t] = [@ EXCEPT !.pc = "lookup",
                                         !.ensured = IF ensure_client(kr, now) # kr THEN 1 ELSE 0]]
    /\ UNCHANGED <<cfg, auxVars, cacheVars, engVars, pipeVars>>

\* try: return self._client.get_signing_key_from_jwt(token)
\* except PyJWKClientError: ... ; any other exception leaves get_signing_key
OnLookupErrorGiveUp(t) == "failed"
OnLookupError(t) == "refresh"
FirstLookup(t) ==
    /\ jv[t].pc = "lookup"
    /\ LET o == get_signing_key_from_jwt(kr, jv[t].token)
           c == [jv[t] EXCEPT !.first = o, !.lookups = @ + 1]
       IN  IF o = "PyJWKClientError"
           THEN /\ jv' = [jv EXCEPT ![t] = [c EXCEPT !.pc = OnLookupError(t), !.exc = o]]
                /\ kr' = IF OnLookupError(t) = "refresh" THEN kr ELSE [kr EXCEPT !.lock = "free"]
           ELSE /\ jv' = [jv EXCEPT ![t] =
                            IF o = "DecodeError" THEN [c EXCEPT !.pc = "failed", !.exc = o]
                            ELSE [c EXCEPT !.pc = "decode", !.key = o]]
                /\ kr' = [kr EXCEPT !.lock = "free"]
    /\ UNCHANGED <<cfg, auxVars, cacheVars, engVars, pipeVars>>

\* self._refresh()
ForcedRefresh(t) ==
    /\ jv[t].pc = "refresh"
    /\ kr' = refresh(kr, now)
    /\ jv' = [jv EXCEPT ![t] = [@ EXCEPT !.pc = "retry", !.forced = @ + 1]]
    /\ UNCHANGED <<cfg, auxVars, cacheVars, engVars, pipeVars>>

\* return self._client.get_signing_key_from_jwt(token), inside the except
\* block: whatever it raises leaves get_signing_key
OnRetryErrorAgain(t) == "refresh"
OnRetryError(t) == "failed"
Retry(t) ==
    /\ jv[t].pc = "retry"
    /\ LET o == get_signing_key_from_jwt(kr, jv[t].token)
           c == [jv[t] EXCEPT !.second = o, !.lookups = @ + 1]
       IN  IF o \in {"PyJWKClientError", "DecodeError"}
           THEN /\ jv' = [jv EXCEPT ![t] = [c EXCEPT !.pc = OnRetryError(t), !.exc = o]]
                /\ kr' = IF OnRetryError(t) = "failed" THEN [kr EXCEPT !.lock = "free"] ELSE kr
           ELSE /\ jv' = [jv EXCEPT ![t] = [c EXCEPT !.pc = "decode", !.key = o, !.exc = None]]
                /\ kr' = [kr EXCEPT !.lock = "free"]
    /\ UNCHANGED <<cfg, auxVars, cacheVars, engVars, pipeVars>>

\* jwt.decode(token, key, algorithms, issuer, audience, options) with
\* verify_signature, verify_exp, verify_iat, verify_iss,
\* require [exp, iat, sub], and verify_aud set from self._audience
VerifyAudAlways(audience) == TRUE
VerifyAud(audience) == audience \notin {None, ""}
IssuerAny(iss) == iss # "missing"
IssuerMatches(iss) == iss = Issuer
decode(token, audience) ==
    IF token.sig # "ok" THEN "InvalidSignatureError"
    ELSE IF "missing" \in {token.exp, token.iat, token.sub} THEN "MissingRequiredClaimError"
    ELSE IF token.iat = "invalid" THEN "InvalidIssuedAtError"
    ELSE IF token.exp = "expired" THEN "ExpiredSignatureError"
    ELSE IF token.iss = "missing" THEN "MissingRequiredClaimError"
    ELSE IF ~IssuerMatches(token.iss) THEN "InvalidIssuerError"
    ELSE IF VerifyAud(audience) /\ token.aud = "missing" THEN "MissingRequiredClaimError"
    ELSE IF VerifyAud(audience) /\ token.aud # audience THEN "InvalidAudienceError"
    ELSE "claims"

\* the except clauses of validate(), in order
InvalidTokenErrors == {"DecodeError", "InvalidSignatureError", "MissingRequiredClaimError",
                       "InvalidIssuedAtError", "ExpiredSignatureError", "InvalidIssuerError",
                       "InvalidAudienceError"}
JWTValidationError(message) == [type |-> "JWTValidationError", message |-> message]
ExceptClausesNoExpired(exc) ==
    IF exc = "InvalidIssuerError" THEN JWTValidationError("Invalid issuer")
    ELSE IF exc = "InvalidAudienceError" THEN JWTValidationError("Invalid audience")
    ELSE IF exc \in InvalidTokenErrors THEN JWTValidationError("Invalid token")
    ELSE JWTValidationError("Validation failed")
ExceptClauses(exc) ==
    IF exc = "ExpiredSignatureError" THEN JWTValidationError("Token has expired")
    ELSE IF exc = "InvalidIssuerError" THEN JWTValidationError("Invalid issuer")
    ELSE IF exc = "InvalidAudienceError" THEN JWTValidationError("Invalid audience")
    ELSE IF exc \in InvalidTokenErrors THEN JWTValidationError("Invalid token")
    ELSE JWTValidationError("Validation failed")
Claims(token) == [type |-> "claims", sub |-> token.sub, iss |-> token.iss]

\* the rest of validate(): decode with the key, or handle what
\* get_signing_key raised
Finish(t) ==
    /\ jv[t].pc \in {"decode", "failed"}
    /\ LET o == IF jv[t].pc = "failed" THEN jv[t].exc ELSE decode(jv[t].token, kr.audience)
       IN  jv' = [jv EXCEPT ![t] = [@ EXCEPT !.pc = "returned",
                      !.exc = IF o = "claims" THEN None ELSE o,
                      !.result = IF o = "claims" THEN Claims(jv[t].token) ELSE ExceptClauses(o)]]
    /\ UNCHANGED <<kr, cfg, auxVars, cacheVars, engVars, pipeVars>>

\* the identity provider rotates its keys: k2 is published
Rotate ==
    /\ "k2" \notin kr.idp
    /\ kr' = [kr EXCEPT !.idp = @ \cup {"k2"}]
    /\ UNCHANGED <<jv, cfg, auxVars, cacheVars, engVars, pipeVars>>
\* time.time() advances
JwtTick == Tick /\ UNCHANGED <<kr, jv, cfg, auxVars, engVars, pipeVars>>

(***************************************************************************)
(* The decoders of the access mask mosquitto-go-auth sends.                *)
(***************************************************************************)
\* _acc_to_actions (mqtt_auth/routes.py) over the int of MqttAclRequest.acc,
\* and _acc_to_action (policies/routes/mqtt.py) over Literal[1, 2, 3, 4]
MaxAcc == 8
Bit(acc, b) == (acc \div b) % 2 = 1
AccAppend(actions, acc, b, name) == IF Bit(acc, b) THEN Append(actions, name) ELSE actions
acc_to_actions(acc) ==
    LET actions == AccAppend(AccAppend(AccAppend(<<>>, acc, 4, "subscribe"), acc, 2, "publish"),
                             acc, 1, "read")
    IN  IF actions # <<>> THEN actions ELSE <<"unknown">>
acc_to_action(acc) ==
    IF acc = 1 \/ acc = 4 THEN "subscribe"
    ELSE IF acc = 2 THEN "publish"
    ELSE IF acc = 3 THEN "subscribe"
    ELSE "unknown"

(***************************************************************************)
(* The MQTT endpoints mosquitto-go-auth calls: POST /acl and               *)
(* POST /superuser of the MQTT auth service (mqtt_auth/routes.py) and      *)
(* POST /mqtt/acl and POST /mqtt/superuser of the policy service           *)
(* (policies/routes/mqtt.py).  A handler has no await in it: one request   *)
(* is served at a time.  What the MQTT policy says is the rule files'      *)
(* business: `grants` are the actions it allows the subject on the topic,  *)
(* `rule` is what data.celine.mqtt.acl.superuser evaluates to.             *)
(***************************************************************************)
NotCalled == [op |-> "none"]
MqttActions == {"subscribe", "publish", "read"}
SuperuserScope == "mqtt.admin"
\* the bearer token / the username: none, not a JWT, a JWT whose signature
\* does not verify, a valid JWT
Credentials == {"missing", "garbage", "forged", "valid"}
MqNoResponse == [ok |-> FALSE, status |-> 0, reason |-> None]
MqIdle == [pc |-> "idle", via |-> None, op |-> None, cred |-> "missing", scopes |-> {}, acc |-> 0,
           actions |-> <<>>, idx |-> 0, evaluated |-> <<>>, decision |-> NoDecision,
           cached |-> FALSE, response |-> MqNoResponse, before |-> <<>>,
           grants |-> {}, rule |-> "undefined", verify |-> TRUE]
MqFrame == UNCHANGED <<engVars, req, cfg, kr, jv, fn>>
MqDone(ok, status_code, reason) ==
    [mq EXCEPT !.pc = "done", !.response = [ok |-> ok, status |-> status_code, reason |-> reason]]
MqInput(action_name) == MkInputEnv("u1", Topic1, action_name, [request_id |-> "m", timestamp |-> "1"])
MqDecision(action_name) ==
    [allowed |-> action_name \in mq.grants,
     reason |-> IF action_name \in mq.grants THEN "ok" ELSE "denied",
     policy |-> PkgMqtt, filters |-> <<>>]

\* _extract_subject_from_token (JwtUser.from_token with verify=True when
\* settings.oidc_jwks_uri is set, without verification otherwise) and
\* _extract_subject_from_username (jwt_validator.validate): is there a Subject
DevMode(m) == ~m.verify /\ m.cred = "forged"
HasSubject(m) ==
    IF m.via = "mqtt_auth" THEN m.cred = "valid" \/ DevMode(m)
    ELSE m.cred = "valid"

MqCall ==
    /\ mq.pc = "idle"
    /\ \E via \in {"mqtt_auth", "policies"}, op \in {"acl", "superuser"}, cred \in Credentials,
          scopes \in SUBSET {SuperuserScope}, acc \in 0..MaxAcc :
          /\ via = "policies" => acc \in {1, 2, 3, 4}
          /\ op = "superuser" => acc = 1
          /\ op = "acl" => scopes = {}
          /\ mq' = [mq EXCEPT !.pc = "token", !.via = via, !.op = op, !.cred = cred,
                              !.scopes = scopes, !.acc = acc, !.actions = <<>>, !.idx = 0,
                              !.evaluated = <<>>, !.decision = NoDecision, !.cached = FALSE,
                              !.response = MqNoResponse,
                              !.before = <<cache, hits, misses, audit>>]
    /\ UNCHANGED <<cacheVars, audit>>
    /\ MqFrame

\* token = _get_token_from_header(authorization); subject = ...
MqToken ==
    /\ mq.pc = "token"
    /\ mq' = IF mq.via = "mqtt_auth" /\ mq.cred = "missing" THEN MqDone(FALSE, 403, "missing token")
             ELSE IF ~HasSubject(mq) THEN MqDone(FALSE, 403, "invalid credentials")
             ELSE [mq EXCEPT !.pc = IF mq.op = "acl" THEN "decode" ELSE "superuser"]
    /\ UNCHANGED <<cacheVars, audit>>
    /\ MqFrame

\* actions = _acc_to_actions(request.acc) / action_name = _acc_to_action(request.acc)
MqDecode ==
    /\ mq.pc = "decode"
    /\ mq' = IF mq.via = "mqtt_auth"
             THEN [mq EXCEPT !.pc = "eval", !.actions = acc_to_actions(mq.acc), !.idx = 1]
             ELSE [mq EXCEPT !.pc = "lookup", !.actions = <<acc_to_action(mq.acc)>>, !.idx = 1]
    /\ UNCHANGED <<cacheVars, audit>>
    /\ MqFrame

\* engine.evaluate_decision for one action: what the policy says, or an
\* exception (engine not loaded, query error)
Outcomes(action_name) == {IF action_name \in mq.grants THEN "allow" ELSE "deny", "raise"}

\* mqtt_auth: for action_name in actions: ... if not decision.allowed: return;
\* except Exception: return
OnDeny(m, ev) == [m EXCEPT !.pc = "done", !.evaluated = ev,
                           !.response = [ok |-> FALSE, status |-> 403, reason |-> "denied"]]
MqEval ==
    /\ mq.pc = "eval"
    /\ mq.idx <= Len(mq.actions)
    /\ \E outcome \in Outcomes(mq.actions[mq.idx]) :
          LET ev == Append(mq.evaluated, [action |-> mq.actions[mq.idx], outcome |-> outcome])
          IN  mq' = IF outcome = "allow" THEN [mq EXCEPT !.evaluated = ev, !.idx = mq.idx + 1]
                    ELSE IF outcome = "deny" THEN OnDeny(mq, ev)
                    ELSE [mq EXCEPT !.pc = "done", !.evaluated = ev,
                                    !.response = [ok |-> FALSE, status |-> 403, reason |-> "check failed"]]
    /\ UNCHANGED <<cacheVars, audit>>
    /\ MqFrame
\* after the loop: MqttResponse(ok=True, reason="authorized")
MqAuthorized ==
    /\ mq.pc = "eval"
    /\ mq.idx > Len(mq.actions)
    /\ mq' = MqDone(TRUE, 200, "authorized")
    /\ UNCHANGED <<cacheVars, audit>>
    /\ MqFrame

\* policies: decision, cached = engine.evaluate_decision("celine.mqtt.acl", policy_input)
\* (CachedPolicyEngine: cache.get, PolicyEngine.evaluate_decision, cache.set)
MqLookup ==
    /\ mq.pc = "lookup"
    /\ IF cfg.cache_enabled
       THEN /\ CacheGet(PkgMqtt, MqInput(mq.actions[1]))
            /\ LET hit == TTLGetValue(cache, now, make_key(PkgMqtt, MqInput(mq.actions[1])))
               IN  mq' = IF hit # NoDecision
                         THEN [mq EXCEPT !.pc = "log", !.decision = hit, !.cached = TRUE,
                                         !.evaluated = <<[action |-> mq.actions[1],
                                                          outcome |-> IF hit.allowed THEN "allow" ELSE "deny"]>>]
                         ELSE [mq EXCEPT !.pc = "evaluate"]
       ELSE /\ mq' = [mq EXCEPT !.pc = "evaluate"]
            /\ UNCHANGED cacheVars
    /\ UNCHANGED audit
    /\ MqFrame
MqEvaluate ==
    /\ mq.pc = "evaluate"
    /\ \E outcome \in Outcomes(mq.actions[1]) :
          LET ev == <<[action |-> mq.actions[1], outcome |-> outcome]>>
          IN  IF outcome = "raise"
              THEN /\ mq' = [mq EXCEPT !.pc = "log_error", !.evaluated = ev]
                   /\ UNCHANGED cacheVars
              ELSE /\ mq' = [mq EXCEPT !.pc = "log", !.evaluated = ev,
                                       !.decision = MqDecision(mq.actions[1])]
                   /\ IF cfg.cache_enabled
                      THEN CacheSet(PkgMqtt, MqInput(mq.actions[1]), MqDecision(mq.actions[1]))
                      ELSE UNCHANGED cacheVars
    /\ UNCHANGED audit
    /\ MqFrame
\* audit.log_decision(...); return MqttResponse(ok=decision.allowed, reason=decision.reason)
MqLog ==
    /\ mq.pc = "log"
    /\ audit' = audit \o Emit([event |-> "policy_decision", request_id |-> "m",
                               allowed |-> mq.decision.allowed, cached |-> mq.cached])
    /\ mq' = MqDone(mq.decision.allowed, IF mq.decision.allowed THEN 200 ELSE 403, mq.decision.reason)
    /\ UNCHANGED cacheVars
    /\ MqFrame
\* except Exception: audit.log_error(...); 500, ok=False
MqLogError ==
    /\ mq.pc = "log_error"
    /\ audit' = audit \o Emit([event |-> "policy_error", request_id |-> "m",
                               allowed |-> FALSE, cached |-> FALSE])
    /\ mq' = MqDone(FALSE, 500, "policy error")
    /\ UNCHANGED cacheVars
    /\ MqFrame

\* POST /superuser.  mqtt_auth: settings.mqtt_superuser_scope in subject.scopes.
\* policies: engine.evaluate("data.celine.mqtt.acl.superuser", ...) -- the
\* PolicyEngine's evaluate reached through CachedPolicyEngine.__getattr__, no
\* cache and no audit -- then bool(result.get("value", False)); any exception
\* gives ok=False
SuperuserEngineCached(m) == "evaluate_decision"
SuperuserEngine(m) == "evaluate"
MqSuperuser ==
    /\ mq.pc = "superuser"
    /\ IF mq.via = "mqtt_auth"
       THEN /\ mq' = IF SuperuserScope \in mq.scopes THEN MqDone(TRUE, 200, "superuser")
                     ELSE MqDone(FALSE, 403, "not superuser")
            /\ UNCHANGED cacheVars
       ELSE /\ \E result \in {mq.rule, "raise"} :
                 mq' = IF result = "raise" THEN MqDone(FALSE, 403, "check failed")
                       ELSE IF result = "true" THEN MqDone(TRUE, 200, "superuser")
                       ELSE MqDone(FALSE, 403, "not superuser")
            /\ IF SuperuserEngine(mq) = "evaluate_decision"
               THEN CacheGet(PkgMqtt, MqInput("superuser"))
               ELSE UNCHANGED cacheVars
    /\ UNCHANGED audit
    /\ MqFrame

\* the response is sent; the next request may come
MqReturn ==
    /\ mq.pc = "done"
    /\ mq' = [MqIdle EXCEPT !.grants = mq.grants, !.rule = mq.rule, !.verify = mq.verify]
    /\ UNCHANGED <<cacheVars, audit>>
    /\ MqFrame

\* the rules of the MQTT policy and the verification setting are fixed for
\* the service's lifetime
MqInit ==
    /\ CacheInit
    /\ eng = Loaded(Tree1)
    /\ lock = "free"
    /\ ld = NotLoading
    /\ obs = NoRead
    /\ req = [r \in Requests |-> Idle]
    /\ audit = <<>>
    /\ cfg = DefaultCfg
    /\ kr = KrIdle
    /\ jv = [t \in Callers |-> NoCaller]
    /\ fn = NotCalled
    /\ \E grants \in SUBSET MqttActions, rule \in {"true", "false", "undefined"}, verify \in BOOLEAN :
          mq = [MqIdle EXCEPT !.grants = grants, !.rule = rule, !.verify = verify]
MqNext ==
    \/ MqCall
    \/ MqToken
    \/ MqDecode
    \/ MqEval
    \/ MqAuthorized
    \/ MqLookup
    \/ MqEvaluate
    \/ MqLog
    \/ MqLogError
    \/ MqSuperuser
    \/ MqReturn
SpecMqtt == MqInit /\ [][MqNext]_vars

\* no pure function called yet, no MQTT request
AuxIdle == fn = NotCalled /\ mq = MqIdle

JwtIdle ==
    /\ kr = KrIdle
    /\ jv = [t \in Callers |-> NoCaller]
JwtSteps ==
    \/ \E t \in Callers : Enter(t)
    \/ \E t \in Callers : FirstLookup(t)
    \/ \E t \in Callers : ForcedRefresh(t)
    \/ \E t \in Callers : Retry(t)
    \/ \E t \in Callers : Finish(t)
    \/ Rotate
    \/ JwtTick
\* a key ring just constructed or already used, any audience setting
JwtInit ==
    /\ CacheInit
    /\ eng = Loaded(Tree1)
    /\ lock = "free"
    /\ ld = NotLoading
    /\ obs = NoRead
    /\ req = [r \in Requests |-> Idle]
    /\ audit = <<>>
    /\ cfg = DefaultCfg
    /\ \E c \in {0, 1}, a \in Audiences : kr = [KrIdle EXCEPT !.client = c, !.audience = a]
    /\ jv = [t \in Callers |-> NoCaller]
    /\ AuxIdle

(***************************************************************************)
(* SpecKeyRing: two concurrent validate() calls on one JWKSCache.          *)
(* SpecValidate: one validate() call over every token shape.               *)
(***************************************************************************)
KeyRingNext == (\E t \in Callers : Call(t, KidTokens)) \/ JwtSteps
SpecKeyRing == JwtInit /\ [][KeyRingNext]_vars
ValidateNext == Call("a", Tokens) \/ JwtSteps
SpecValidate == JwtInit /\ [][ValidateNext]_vars

EngineIdle ==
    /\ eng = Loaded(Tree1)
    /\ lock = "free"
    /\ ld = NotLoading
    /\ obs = NoRead
    /\ req = [r \in Requests |-> Idle]
    /\ audit = <<>>
    /\ cfg = DefaultCfg
    /\ JwtIdle
    /\ AuxIdle

\* the cache empty, beside an engine that init_deps has loaded
IdleInit == CacheInit /\ EngineIdle

(***************************************************************************)
(* SpecFn: the pure functions of the pipeline, each called on every input  *)
(* of a bounded set.                                                       *)
(***************************************************************************)
FnFrame == UNCHANGED <<cacheVars, engVars, pipeVars, cfg, kr, jv, mq>>

\* _get_policy_package (routes/authorize.py) and policy_package_for_resource
\* (api/service.py), asked for a resource type while the engine knows the
\* packages of `store`; None stands for the HTTPException(400) / the
\* PolicyPackageError
PkgGeneric == "celine.authz"
TypeNames == RouteTypes \cup ApiTypes \cup {"unknown"}
Stores == SUBSET {PkgDataset, "celine.pipeline.state", "celine.twin.access", "celine.dt.access", PkgGeneric}
ResolveCall ==
    /\ fn = NotCalled
    /\ \E store \in Stores, type \in TypeNames, via \in {"route", "api"} :
          fn' = [op |-> "resolve", via |-> via, store |-> store, type |-> type,
                 out |-> IF via = "route" THEN get_policy_package([type |-> type, id |-> "x"])
                         ELSE policy_package_for_resource([type |-> type, id |-> "x"])]
    /\ FnFrame

AccCall ==
    /\ fn = NotCalled
    /\ \/ \E acc \in 0..MaxAcc :
             fn' = [op |-> "acc", via |-> "mqtt_auth", acc |-> acc, out |-> acc_to_actions(acc)]
       \/ \E acc \in {1, 2, 3, 4} :
             fn' = [op |-> "acc", via |-> "policies", acc |-> acc, out |-> <<acc_to_action(acc)>>]
    /\ FnFrame

\* PolicyEngine.evaluate_decision on an engine holding one rule file of the
\* package, or none
RuleKinds == {"readonly", "members", "conflict", "label", "quota", "badreason", "badfilters", "rows"}
EvaluateCall ==
    /\ fn = NotCalled
    /\ \E content \in {{Rego(PkgDataset, rule), DataDoc} : rule \in RuleKinds} \cup {{}}, input \in Inputs :
          fn' = [op |-> "evaluate", content |-> content, input |-> input,
                 yields |-> QueryAllow(content, PkgDataset, input),
                 reason |-> QueryReason(content, PkgDataset, input),
                 filters |-> QueryFilters(content, PkgDataset, input),
                 fails |-> FiltersQueryFails(content, PkgDataset, input),
                 out |-> evaluate_decision(content, PkgDataset, input)]
    /\ FnFrame

(***************************************************************************)
(* SubjectExtractor.extract.  A claim value is absent, null, a number, a   *)
(* string or a list; a string is the sequence of its pieces, where "/",    *)
(* " " and the prefix "service-account-" are pieces of their own.          *)
(***************************************************************************)
Absent == [type |-> "absent", text |-> <<>>, items |-> <<>>]
Null == [type |-> "null", text |-> <<>>, items |-> <<>>]
Number == [type |-> "int", text |-> <<>>, items |-> <<>>]
Str(text) == [type |-> "str", text |-> text, items |-> <<>>]
List(items) == [type |-> "list", text |-> <<>>, items |-> items]
ServiceAccountPrefix == "service-account-"
ClaimsMaps ==
    [sub : {Absent, Str(<<"user-1">>), Number, Null},
     client_id : {Absent, Str(<<"svc-1">>), Null},
     azp : {Absent, Str(<<"svc-forecast">>)},
     preferred_username : {Absent, Str(<<"alice">>), Str(<<ServiceAccountPrefix, "svc-forecast">>)},
     groups : {Absent, Str(<<"not-a-list">>), List(<<Str(<<"/", "org", "/", "admins">>), Str(<<"users">>)>>),
               List(<<Str(<<"/">>), Number, Str(<<"/", "admins", "/">>)>>)},
     scope : {Absent, Str(<<"read", " ", " ", "write">>), List(<<Str(<<"a">>), Number, Null>>), Number}]
\* dict.get(key, default)
Get(claims, key, default) == IF claims[key] = Absent THEN default ELSE claims[key]
\* str.strip(c), str.split(c) and str.split()
RECURSIVE LStrip(_, _)
LStrip(text, c) == IF text # <<>> /\ Head(text) = c THEN LStrip(Tail(text), c) ELSE text
RECURSIVE RStrip(_, _)
RStrip(text, c) ==
    IF text # <<>> /\ text[Len(text)] = c THEN RStrip(SubSeq(text, 1, Len(text) - 1), c) ELSE text
Strip(text, c) == RStrip(LStrip(text, c), c)
RECURSIVE SplitAt(_, _)
SplitAt(text, c) ==
    IF \E n \in 1..Len(text) : text[n] = c
    THEN LET n == CHOOSE k \in 1..Len(text) : text[k] = c /\ \A j \in 1..(k - 1) : text[j] # c
         IN  <<SubSeq(text, 1, n - 1)>> \o SplitAt(SubSeq(text, n + 1, Len(text)), c)
    ELSE <<text>>
Words(text) == SelectSeq(SplitAt(text, " "), LAMBDA w : w # <<>>)
\* SubjectExtractor._extract_groups
Normalized(g) == IF g.text # <<>> THEN SplitAt(Strip(g.text, "/"), "/")[Len(SplitAt(Strip(g.text, "/"), "/"))] ELSE <<>>
RECURSIVE NormalizeAll(_)
NormalizeAll(raw) ==
    IF raw = <<>> THEN <<>>
    ELSE (IF Head(raw).type = "str" /\ Normalized(Head(raw)) # <<>> THEN <<Normalized(Head(raw))>> ELSE <<>>)
         \o NormalizeAll(Tail(raw))
extract_groups(claims) ==
    LET raw_groups == Get(claims, "groups", List(<<>>))
    IN  IF raw_groups.type # "list" THEN <<>> ELSE NormalizeAll(raw_groups.items)
\* SubjectExtractor._extract_scopes
RECURSIVE TextsOf(_)
TextsOf(raw) ==
    IF raw = <<>> THEN <<>>
    ELSE (IF Head(raw).type = "str" THEN <<Head(raw).text>> ELSE <<>>) \o TextsOf(Tail(raw))
extract_scopes(claims) ==
    LET raw_scope == Get(claims, "scope", Str(<<>>))
    IN  IF raw_scope.type = "str" THEN Words(raw_scope.text)
        ELSE IF raw_scope.type = "list" THEN TextsOf(raw_scope.items)
        ELSE <<>>
\* Subject(id=...): the model's id is a str field, pydantic rejects any other type
ValidationError == [raised |-> "ValidationError"]
MkSubject(id, type, groups, scopes) ==
    IF id.type # "str" THEN ValidationError
    ELSE [id |-> id.text, type |-> type, groups |-> groups, scopes |-> scopes]
\* SubjectExtractor.extract
is_service(claims) == claims["client_id"] # Absent
extract(claims) ==
    LET subject_id == IF is_service(claims)
                      THEN Get(claims, "client_id", Get(claims, "sub", Str(<<"unknown">>)))
                      ELSE Get(claims, "sub", Str(<<"unknown">>))
    IN  MkSubject(subject_id, IF is_service(claims) THEN "service" ELSE "user",
                  extract_groups(claims), extract_scopes(claims))
ExtractCall ==
    /\ fn = NotCalled
    /\ \E claims \in ClaimsMaps : fn' = [op |-> "extract", claims |-> claims, out |-> extract(claims)]
    /\ FnFrame

\* the caller takes the result
FnReturn == fn # NotCalled /\ fn' = NotCalled /\ FnFrame
FnNext == ResolveCall \/ AccCall \/ EvaluateCall \/ ExtractCall \/ FnReturn
SpecFn == IdleInit /\ [][FnNext]_vars

(***************************************************************************)
(* SpecKey: one Set then Gets, over every package and input, for the key   *)
(* derivation.                                                             *)
(***************************************************************************)
KeySet == /\ cache = <<>>
          /\ \E p \in Packages, i \in Inputs, d \in Decisions : d.policy = p /\ CacheSet(p, i, d)
KeyGet == /\ cache # <<>>
          /\ last.op = "set"
          /\ \E p \in Packages, i \in Inputs : CacheGet(p, i)
KeyNext == (KeySet \/ KeyGet) /\ UNCHANGED <<engVars, pipeVars, optVars>>
SpecKey == IdleInit /\ [][KeyNext]_vars

(***************************************************************************)
(* SpecCache: any sequence of Set, Get, Invalidate and clock ticks over a  *)
(* few inputs.                                                             *)
(***************************************************************************)
\* one request stores, a later request (another request_id) asks
SetInputs == {MkInputEnv("u1", Dataset1, a, [request_id |-> "a"]) : a \in ActionVals}
GetInputs == {MkInputEnv("u1", Dataset1, a, [request_id |-> "b"]) : a \in ActionVals}
Allow(p) == [allowed |-> TRUE, reason |-> "ok", policy |-> p, filters |-> <<>>]
DoSet == \E p \in Packages, i \in SetInputs : CacheSet(p, i, Allow(p))
DoGet == \E p \in Packages, i \in GetInputs : CacheGet(p, i)
DoInvalidate == \E p \in Packages \cup {None} : CacheInvalidate(p)
CacheNext == (DoSet \/ DoGet \/ DoInvalidate \/ CacheStats \/ Tick) /\ UNCHANGED <<engVars, pipeVars, optVars>>
SpecCache == IdleInit /\ [][CacheNext]_vars

(***************************************************************************)
(* Spec: the service after startup (init_deps has loaded the engine).      *)
(* Every route is an async def that never awaits, so the event loop runs   *)
(* one handler at a time to its end: /authorize requests, /reload and      *)
(* cache invalidation follow each other in any order.                      *)
(***************************************************************************)
InFlight(r) == req[r].pc \notin {"idle", "done"}
Quiet == ld.pc # "loading" /\ \A r \in Requests : ~InFlight(r)
Init ==
    /\ CacheInit
    /\ \E tree \in {t \in Trees : WellFormed(t)} : eng = Loaded(tree)
    /\ lock = "free"
    /\ ld = NotLoading
    /\ obs = NoRead
    /\ req = [r \in Requests |-> Idle]
    /\ audit = <<>>
    /\ cfg = DefaultCfg
    /\ JwtIdle
    /\ AuxIdle
Authorize == \E r \in Requests : Quiet /\ Start(r)
Reload == \E tree \in Trees : Quiet /\ LoadBegin(tree)
\* CachedPolicyEngine.invalidate_cache; the calls answered before it are no
\* longer undisturbed
\* an evaluation made and not yet stored when invalidate_cache(p) runs is
\* overtaken by it
Overtaken(r, p) == req[r].pc = "cache_set" /\ (p = None \/ req[r].pkg = p)
InvalidateCache(p) ==
    /\ CacheInvalidate(p)
    /\ req' = [r \in Requests |-> [req[r] EXCEPT !.undisturbed = FALSE,
                                                  !.overtaken = @ \/ Overtaken(r, p)]]
    /\ UNCHANGED <<audit, engVars, optVars>>
Invalidate ==
    /\ Quiet
    /\ \E p \in Packages \cup {None} : InvalidateCache(p)
PipeSteps ==
    \/ \E r \in Requests : Lookup(r)
    \/ \E r \in Requests : Evaluate(r)
    \/ \E r \in Requests : Store(r)
    \/ \E r \in Requests : LogDecision(r)
    \/ \E r \in Requests : Respond(r)
    \/ \E r \in Requests : LogError(r)
    \/ \E r \in Requests : RespondError(r)
Steps ==
    \/ PipeSteps
    \/ LoadItem
    \/ LoadEnd
Next == Authorize \/ Reload \/ Invalidate \/ Steps
Spec == Init /\ [][Next]_vars

(***************************************************************************)
(* SpecThreads: the same engine shared by threads, as its locks provide    *)
(* for ("Thread-safe policy evaluation"): an /authorize request, reloads   *)
(* and the lock-free reads interleave freely.                              *)
(***************************************************************************)
ThreadsNext ==
    \/ Start("a")
    \/ \E tree \in Trees : LoadBegin(tree)
    \/ Steps
    \/ ReadHasPackage
    \/ ReadGetPackages
SpecThreads == Init /\ [][ThreadsNext]_vars

(***************************************************************************)
(* SpecLoad: the engine from its construction: the load() of init_deps,    *)
(* POST /reload, and /authorize requests in between.                       *)
(***************************************************************************)
FreshInit ==
    /\ CacheInit
    /\ eng = Fresh
    /\ lock = "free"
    /\ ld = [NotLoading EXCEPT !.succeeded = FALSE]
    /\ obs = NoRead
    /\ req = [r \in Requests |-> Idle]
    /\ audit = <<>>
    /\ cfg = DefaultCfg
    /\ JwtIdle
    /\ AuxIdle
LoadNext == Authorize \/ Reload \/ Steps
SpecLoad == FreshInit /\ [][LoadNext]_vars

(***************************************************************************)
(* SpecRace: two threads in CachedPolicyEngine.evaluate_decision and a     *)
(* third calling invalidate_cache, on one DecisionCache ("Thread-safe      *)
(* implementation"): each cache call is atomic under the cache's lock,     *)
(* the calls of the threads interleave freely.                             *)
(***************************************************************************)
RaceNext ==
    \/ \E r \in Requests : Start(r)
    \/ PipeSteps
    \/ \E p \in Packages \cup {None} : InvalidateCache(p)
SpecRace == Init /\ [][RaceNext]_vars

(***************************************************************************)
(* SpecEngine: threads calling PolicyEngine.evaluate_decision and          *)
(* PolicyEngine.evaluate on one engine while another thread reloads it.    *)
(* The regorus Engine keeps the input set_input_json gave it last and      *)
(* every eval_query runs against that input; each statement inside         *)
(* `with self._lock` is a step of its own.                                 *)
(***************************************************************************)
\* `with self._lock:` is entered when no other thread holds the RLock
CanAcquireAlways(l) == TRUE
CanAcquire(l) == l = "free"
EngineCalls == {"evaluate_decision", "evaluate"}
\* eval_query against the Engine's current input (a new Engine has none)
EngAllow(e, pkg) == IF e.input = NoDecision THEN "undefined" ELSE QueryAllow(e.content, pkg, e.input)
EngReason(e, pkg) == IF e.input = NoDecision THEN "undefined" ELSE QueryReason(e.content, pkg, e.input)
EngFilters(e, pkg) == IF e.input = NoDecision THEN <<>> ELSE TryFilters(e.content, pkg, e.input)
\* the call: `if not self._loaded: raise`, then _build_input
EngineCall(r) ==
    /\ req[r].pc = "idle"
    /\ \E q \in Questions, op \in EngineCalls :
          req' = [req EXCEPT ![r] =
                     IF ~eng.loaded
                     THEN [@ EXCEPT !.pc = "done", !.op = op, !.raised = TRUE, !.error = "PolicyEngineError"]
                     ELSE [@ EXCEPT !.pc = "acquire", !.op = op, !.pkg = PkgDataset,
                                    !.input = MkInput(q[1], q[2], q[3]),
                                    !.startVersion = eng.version]]
    /\ UNCHANGED <<audit, cacheVars, engVars, optVars>>
Acquire(r) ==
    /\ req[r].pc = "acquire"
    /\ CanAcquire(lock)
    /\ lock' = r
    /\ req' = [req EXCEPT ![r] = [@ EXCEPT !.pc = "set_input"]]
    /\ UNCHANGED <<audit, cacheVars, eng, ld, obs, optVars>>
\* self._engine.set_input_json(json.dumps(input_dict))
SetInput(r) ==
    /\ req[r].pc = "set_input"
    /\ eng' = [eng EXCEPT !.input = req[r].input]
    /\ req' = [req EXCEPT ![r] = [@ EXCEPT !.pc = "allow", !.evalVersion = eng.version,
                                            !.evalContent = eng.content, !.evalTree = eng.tree]]
    /\ UNCHANGED <<audit, cacheVars, lock, ld, obs, optVars>>
\* eval_query(allow_query): evaluate returns its result, evaluate_decision
\* goes on; an exception leaves the with block
AskAllow(r) ==
    /\ req[r].pc = "allow"
    /\ LET result == EngAllow(eng, req[r].pkg)
           ran == [req[r] EXCEPT !.seen = @ \cup {eng.input}]
       IN  IF result = "error"
           THEN /\ req' = [req EXCEPT ![r] = [ran EXCEPT !.pc = "done", !.raised = TRUE,
                                                         !.error = "PolicyEngineError"]]
                /\ lock' = "free"
           ELSE IF req[r].op = "evaluate"
           THEN /\ req' = [req EXCEPT ![r] = [ran EXCEPT !.pc = "done",
                                                         !.response = [kind |-> "result", value |-> result]]]
                /\ lock' = "free"
           ELSE /\ req' = [req EXCEPT ![r] = [ran EXCEPT !.pc = "reason", !.allow = extract_bool(result)]]
                /\ UNCHANGED lock
    /\ UNCHANGED <<audit, cacheVars, eng, ld, obs, optVars>>
AskReason(r) ==
    /\ req[r].pc = "reason"
    /\ IF EngReason(eng, req[r].pkg) = "error"
       THEN /\ req' = [req EXCEPT ![r] = [@ EXCEPT !.pc = "done", !.seen = @ \cup {eng.input},
                                                   !.raised = TRUE, !.error = "PolicyEngineError"]]
            /\ lock' = "free"
       ELSE /\ req' = [req EXCEPT ![r] = [@ EXCEPT !.pc = "filters", !.seen = @ \cup {eng.input},
                                                   !.reason = extract_string(EngReason(eng, req[r].pkg))]]
            /\ UNCHANGED lock
    /\ UNCHANGED <<audit, cacheVars, eng, ld, obs, optVars>>
AskFilters(r) ==
    /\ req[r].pc = "filters"
    /\ req' = [req EXCEPT ![r] = [@ EXCEPT !.pc = "done", !.seen = @ \cup {eng.input},
                                            !.decision = [allowed |-> req[r].allow, reason |-> req[r].reason,
                                                          policy |-> req[r].pkg,
                                                          filters |-> EngFilters(eng, req[r].pkg)]]]
    /\ lock' = "free"
    /\ UNCHANGED <<audit, cacheVars, eng, ld, obs, optVars>>
EngineNext ==
    \/ \E r \in Requests : EngineCall(r)
    \/ \E r \in Requests : Acquire(r)
    \/ \E r \in Requests : SetInput(r)
    \/ \E r \in Requests : AskAllow(r)
    \/ \E r \in Requests : AskReason(r)
    \/ \E r \in Requests : AskFilters(r)
    \/ \E tree \in Trees : LoadBegin(tree)
    \/ LoadItem
    \/ LoadEnd
SpecEngine == Init /\ [][EngineNext]_vars

(***************************************************************************)
(* SpecApi: the pipeline as a library and as a route, under every setting  *)
(* of decision_cache_enabled and audit_enabled, with an audit logger that  *)
(* may raise: PolicyAPI.evaluate_for_resource calls (skip_cache or not)    *)
(* and /authorize requests follow each other, with cache invalidation.     *)
(***************************************************************************)
ApiInit ==
    /\ CacheInit
    /\ \E tree \in {t \in Trees : WellFormed(t)} : eng = Loaded(tree)
    /\ lock = "free"
    /\ ld = NotLoading
    /\ obs = NoRead
    /\ req = [r \in Requests |-> Idle]
    /\ audit = <<>>
    /\ cfg \in Cfgs
    /\ JwtIdle
    /\ AuxIdle
ApiEvaluate == \E r \in Requests : Quiet /\ StartApi(r)
SinkFails ==
    \/ \E r \in Requests : LogDecisionFails(r)
    \/ \E r \in Requests : LogErrorFails(r)
\* time passes between one call and the next
Clock ==
    /\ Quiet
    /\ \E r \in Requests : req[r].pc = "done"
    /\ \E r \in Requests : req[r].pc = "idle"
    /\ Tick
    /\ UNCHANGED <<engVars, pipeVars, optVars>>
ApiNext == Authorize \/ ApiEvaluate \/ Invalidate \/ Clock \/ PipeSteps \/ SinkFails
SpecApi == ApiInit /\ [][ApiNext]_vars

(***************************************************************************)
(* SpecAuthn: POST /authorize with its get_subject dependency (the         *)
(* Authorization header, JWTValidator.validate, the Subject), then the     *)
(* handler.  FastAPI resolves the dependency first; an HTTPException       *)
(* raised in it answers the request and the handler never runs.            *)
(***************************************************************************)
\* the Authorization header: not sent, empty, or a text that split() cuts
\* into `parts` words, the first being `scheme`
Headers == {[text |-> "none", parts |-> 0, scheme |-> ""], [text |-> "", parts |-> 0, scheme |-> ""]}
           \cup [text : {"text"}, parts : {1, 2, 3}, scheme : {"Bearer", "bearer", "Basic"}]
Lower(word) == IF word = "Bearer" THEN "bearer" ELSE IF word = "Basic" THEN "basic" ELSE word
AuthnTokens == {GoodToken("k1"), GoodToken("kx"), Malformed,
                [GoodToken("k1") EXCEPT !.exp = "expired"], [GoodToken("k1") EXCEPT !.sig = "bad"],
                [GoodToken("k1") EXCEPT !.iss = "other"]}
\* `if not authorization`
NoAuthorization(h) == h.text \in {"none", ""}
\* len(parts) != 2 or parts[0].lower() != "bearer"
BadFormat(h) == h.parts # 2 \/ Lower(h.scheme) # "bearer"
\* JWTValidator.validate as one call by one caller: the key ring it leaves
\* behind and what it returns or raises (the retry after _refresh() finds
\* what the first lookup found: nothing was published in between)
validate_key_ring(k, t, token) ==
    IF get_signing_key_from_jwt(ensure_client(k, t), token) = "PyJWKClientError"
    THEN refresh(ensure_client(k, t), t)
    ELSE ensure_client(k, t)
validate(k, t, token) ==
    LET key == get_signing_key_from_jwt(ensure_client(k, t), token)
        o == IF key \in {"PyJWKClientError", "DecodeError"} THEN key ELSE decode(token, k.audience)
    IN  IF o = "claims" THEN Claims(token) ELSE ExceptClauses(o)
\* except JWTValidationError: raise HTTPException(401)
OnInvalidTokenAnonymous(e) == "anonymous"
OnInvalidToken(e) == "raise_401"
Unauthorized(rec, h, token, detail) ==
    [rec EXCEPT !.pc = "done", !.header = h, !.token = token, !.error = "HTTPException",
                !.response = [kind |-> "error", status |-> 401, error |-> detail]]
\* the handler's first lines with the Subject (or None) get_subject returned
Handle(rec, r, h, token, subject, q) ==
    LET input == MkInputEnv(subject, q[2], q[3], [request_id |-> r, timestamp |-> "1"])
    IN  IF get_policy_package(q[2]) = None
        THEN [rec EXCEPT !.pc = "done", !.header = h, !.token = token, !.input = input,
                         !.error = "UnknownResourceType",
                         !.response = [kind |-> "error", status |-> 400, error |-> "UnknownResourceType"]]
        ELSE [rec EXCEPT !.pc = "lookup", !.header = h, !.token = token, !.input = input,
                         !.pkg = get_policy_package(q[2]), !.startVersion = eng.version]
Receive(r) ==
    /\ req[r].pc = "idle"
    /\ \E h \in Headers, token \in AuthnTokens, q \in Questions :
          LET validated == ~NoAuthorization(h) /\ ~BadFormat(h)
              result == validate(kr, now, token)
          IN  /\ ~validated => token = GoodToken("k1")
              /\ q[1] = "u1"
              /\ req' = [req EXCEPT ![r] =
                            IF NoAuthorization(h) THEN Handle(@, r, h, token, "null", q)
                            ELSE IF BadFormat(h)
                                 THEN Unauthorized(@, h, token, "Invalid authorization header format")
                            ELSE IF result.type = "JWTValidationError"
                                 THEN (IF OnInvalidToken(result) = "raise_401"
                                       THEN Unauthorized(@, h, token, result.message)
                                       ELSE Handle(@, r, h, token, "null", q))
                            ELSE Handle(@, r, h, token, result.sub, q)]
              /\ kr' = IF validated THEN validate_key_ring(kr, now, token) ELSE kr
    /\ UNCHANGED <<audit, cacheVars, engVars, cfg, jv, auxVars>>
Authenticate == \E r \in Requests : Quiet /\ Receive(r)
AuthnNext == Authenticate \/ PipeSteps
SpecAuthn == Init /\ [][AuthnNext]_vars

(***************************************************************************)
(* Properties of the pipeline and of the engine's reload.                  *)
(***************************************************************************)
ErrorLogged(r) == \E n \in 1..Len(audit) :
                      audit[n].event = "policy_error" /\ audit[n].request_id = r
Evaluated(r) == req[r].evalTree # <<>>

\* C1: when policy evaluation raises, Authorize answers with an error, never
\* with a Decision, and log_error has run before the error is returned.
C1_FailClosed ==
    \A r \in Requests :
        req[r].raised =>
            /\ req[r].response.kind \in {"none", "error"}
            /\ req[r].response.kind = "error" => ErrorLogged(r)
C1_Witness ==
    \E r \in Requests :
        /\ req[r].raised
        /\ req[r].pc = "done"
        /\ req[r].response.kind = "error"
        /\ ErrorLogged(r)

\* C2: a Decision served from the cache has the allowed, reason and filters a
\* fresh evaluation of the same package and input against the current store
\* would return (stated for a current store that is completely loaded, with
\* no reload running).
C2_CachedEqualsFresh ==
    \A r \in Requests :
        (req[r].cached /\ req[r].settled) =>
            /\ req[r].fresh # Raised
            /\ req[r].decision.allowed = req[r].fresh.allowed
            /\ req[r].decision.reason = req[r].fresh.reason
            /\ req[r].decision.filters = req[r].fresh.filters

\* C3: no Evaluate runs against a store to which only some of the files of a
\* Load have been added.
C3_NoHalfBuiltStore ==
    \A r \in Requests : Evaluated(r) => req[r].evalContent = Items(req[r].evalTree)

\* C4: after a failed Reload, Evaluate, HasPackage, ListPackages and the
\* policy count answer as before it.
C4_FailedReloadKeepsStore ==
    (ld.pc = "returned" /\ ld.status = "error") =>
        /\ get_packages(eng) = ld.before.known_packages
        /\ \A p \in Packages : has_package(eng, p) = (p \in ld.before.known_packages)
        /\ eng.policy_count = ld.before.policy_count
        /\ \A p \in Packages, q \in Questions :
              evaluate_decision(eng.content, p, MkInput(q[1], q[2], q[3]))
                  = evaluate_decision(ld.before.content, p, MkInput(q[1], q[2], q[3]))

\* C5: an Authorize in flight while Reload runs evaluates against the store
\* version that was current when the call started (stated for reloads that
\* succeed: the store evaluated against is a completely loaded one).
C5_InFlightUsesStartStore ==
    \A r \in Requests :
        (Evaluated(r) /\ req[r].evalContent = Items(req[r].evalTree))
            => req[r].evalVersion = req[r].startVersion

\* C6: HasPackage and ListPackages read while a Reload runs answer from the
\* complete old package set or the complete new one.
C6_ReadsSeeCompleteSets ==
    obs.loading =>
        /\ obs.op = "get_packages" => obs.answer \in {obs.old, obs.new}
        /\ obs.op = "has_package" => obs.answer \in {{obs.arg \in obs.old}, {obs.arg \in obs.new}}

(***************************************************************************)
(* Properties of the decision cache.                                       *)
(***************************************************************************)
\* the non-volatile environment fields of an input, none when it has no environment
NonVolatile(i) ==
    IF "environment" \in DOMAIN i
    THEN [k \in DOMAIN i["environment"] \ VolatileKeys |-> i["environment"][k]]
    ELSE <<>>
SameStable(i, j) ==
    /\ i["subject"] = j["subject"]
    /\ i["resource"] = j["resource"]
    /\ i["action"] = j["action"]
    /\ NonVolatile(i) = NonVolatile(j)
Stored(n) == cache[n].src
Elapsed(n, t) == t >= Stored(n).at + TtlSeconds

\* C7: for two inputs identical except for request_id, timestamp and trace_id,
\* and any package P, a Get(P, second) after one Set(P, first, d) returns d.
C7_VolatileFieldsIgnored ==
    last.op = "get" =>
        \A n \in 1..Len(cache) :
            (Stored(n).policy = last.policy /\ SameStable(Stored(n).input, last.input))
                => last.result = cache[n].value
C7_Witness ==
    /\ last.op = "get"
    /\ last.result # NoDecision
    /\ "environment" \in DOMAIN last.input
    /\ "environment" \in DOMAIN last.src.input
    /\ {"request_id", "timestamp", "trace_id"} \subseteq DOMAIN last.input["environment"]
    /\ DOMAIN last.src.input["environment"] \cap VolatileKeys = {"request_id"}
    /\ last.input["environment"]["request_id"] # last.src.input["environment"]["request_id"]

\* C8: Get(P, i) returns a Decision stored by Set(P', i', d) only if P = P' and
\* i, i' have the same subject, resource, action and non-volatile environment.
C8_NoCrossServing ==
    (last.op = "get" /\ last.result # NoDecision) =>
        /\ last.src.policy = last.policy
        /\ SameStable(last.src.input, last.input)
C8_Witness ==
    /\ last.op = "get"
    /\ last.result # NoDecision
    /\ last.input # last.src.input
    /\ last.result.policy = last.policy

\* C9: an entry stored by Set and still held is returned by Get at any time
\* before its TTL has elapsed and never once it has: a Get on an expired entry
\* is a miss.
C9_TtlExpiry ==
    last.op = "get" =>
        /\ last.result # NoDecision => last.at < last.src.at + TtlSeconds
        /\ \A n \in 1..Len(cache) :
              (Stored(n).policy = last.policy /\ SameStable(Stored(n).input, last.input))
                  => IF Elapsed(n, last.at) THEN last.result = NoDecision
                     ELSE last.result = cache[n].value
C9_Witness ==
    /\ last.op = "get"
    /\ last.result = NoDecision
    /\ \E n \in 1..Len(cache) :
          /\ Stored(n).policy = last.policy
          /\ SameStable(Stored(n).input, last.input)
          /\ last.at = Stored(n).at + TtlSeconds

\* C10: after any sequence of Set, Get and Invalidate the cache holds at most
\* maxsize entries.
C10_CapacityBound == Len(cache) <= MaxSize
C10_Witness ==
    /\ last.op = "set"
    /\ last.evicted = 1
    /\ Len(cache) = MaxSize

\* C11: Invalidate(P) removes exactly the entries stored under package P,
\* leaves every other package's entries retrievable with their values, and
\* returns the number removed; Invalidate() empties the cache and returns the
\* previous size (the entries that had not expired).
LiveEntries(c, t) == {c[n] : n \in {m \in 1..Len(c) : t < c[m].expires}}
InvalidateStep == last'.op = "invalidate" /\ <<cache, last>>' # <<cache, last>>
C11_InvalidateExact ==
    [][InvalidateStep =>
         LET before == LiveEntries(cache, now)
             after == LiveEntries(cache', now')
             gone == IF last'.policy = None THEN before
                     ELSE {e \in before : e.src.policy = last'.policy}
         IN  /\ after = before \ gone
             /\ \A e \in before \ gone : TTLGetValue(cache', now', e.key) = e.value
             /\ last'.count = Cardinality(gone)]_vars
C11_Witness ==
    /\ last.op = "invalidate"
    /\ last.policy # None
    /\ last.count = 1
    /\ Len(cache) = 1
    /\ cache[1].src.policy # last.policy

(***************************************************************************)
(* Properties of the cached pipeline and of the audit trail (SpecApi).     *)
(***************************************************************************)
\* r1 was answered with a Decision less than the TTL ago and no invalidation
\* followed; r2, the same question without skip_cache, is past its cache
\* lookup
SameCall(r1, r2) ==
    /\ req[r1].pkg = req[r2].pkg
    /\ SameStable(req[r1].input, req[r2].input)
    /\ ~req[r1].skip /\ ~req[r2].skip
SecondCall(r1, r2) ==
    /\ r1 # r2
    /\ req[r1].pc = "done"
    /\ req[r1].response.kind = "decision"
    /\ req[r1].undisturbed
    /\ now < req[r1].at + TtlSeconds
    /\ req[r2].pc \in {"log_decision", "respond"}
    /\ SameCall(r1, r2)
ServedFromCache(r1, r2) ==
    /\ req[r2].cached
    /\ req[r2].evaluated = NoDecision
    /\ req[r2].decision = req[r1].decision
    /\ (req[r2].pc = "respond" /\ cfg.audit_enabled) =>
           /\ audit # <<>>
           /\ audit[Len(audit)].request_id = r2
           /\ audit[Len(audit)].cached
           /\ audit[Len(audit)].allowed = req[r1].response.allowed

\* C12 as stated: of two identical Authorize calls with no invalidation or
\* eviction between them, the second is served from the cache (audit record
\* cached=true, no evaluation, the first call's Decision).
C12_SecondCallCached ==
    \A r1, r2 \in Requests : SecondCall(r1, r2) => ServedFromCache(r1, r2)
\* C12 amended: the same, when the decision cache is enabled
\* (decision_cache_enabled, the default).
C12_SecondCallCachedWhenEnabled ==
    \A r1, r2 \in Requests :
        (cfg.cache_enabled /\ SecondCall(r1, r2)) => ServedFromCache(r1, r2)
C12_Witness ==
    \E r1, r2 \in Requests :
        /\ cfg.cache_enabled /\ cfg.audit_enabled
        /\ SecondCall(r1, r2)
        /\ req[r2].pc = "respond"
        /\ req[r2].cached
        /\ req[r1].evaluated # NoDecision
        /\ now > req[r1].at

\* C13: a call with skip_cache=true always runs the evaluator and leaves the
\* cache entries and the hit/miss counters alone; a call with skip_cache=false
\* consults the cache (one hit or miss counted) before it evaluates, evaluates
\* only after a miss, and stores the Decision of a miss.  consults(r) says
\* for which calls without skip_cache this is claimed.
Moved(r) == req'[r].pc # req[r].pc
CacheKeyOf(r) == make_key(req[r].pkg, req[r].input)
SkipStep(r) ==
    (req[r].skip /\ Moved(r)) =>
        /\ UNCHANGED cacheVars
        /\ req[r].pc = "lookup" => req'[r].pc = "evaluate"
        /\ req'[r].pc \in {"log_decision", "log_error"} => req'[r].evaluated # NoDecision
ConsultStep(r) ==
    (~req[r].skip /\ Moved(r)) =>
        /\ req[r].pc = "lookup" => hits' + misses' = hits + misses + 1
        /\ (req[r].pc = "lookup" /\ req'[r].pc = "evaluate") => misses' = misses + 1
        /\ req[r].pc = "cache_set" =>
              /\ TTLGetValue(cache', now', CacheKeyOf(r)) = req[r].decision
              /\ Entry(cache', CacheKeyOf(r)).src.input = req[r].input
\* as stated
C13_SkipCacheOnly ==
    [][\A r \in Requests : SkipStep(r) /\ ConsultStep(r)]_vars
\* amended: the cache is consulted and written for calls without skip_cache
\* when the decision cache is enabled; disabled by the setting, every call
\* goes past the cache as a skip_cache call does
C13_SkipCacheOrDisabled ==
    [][\A r \in Requests :
          /\ SkipStep(r)
          /\ cfg.cache_enabled => ConsultStep(r)
          /\ (~cfg.cache_enabled /\ Moved(r) /\ req[r].pc # "idle") => UNCHANGED cacheVars]_vars
C13_Witness ==
    \E r1, r2 \in Requests :
        /\ cfg.cache_enabled
        /\ req[r1].skip /\ req[r1].pc = "done" /\ req[r1].response.kind = "decision"
        /\ req[r1].evaluated # NoDecision
        /\ ~req[r2].skip /\ req[r2].pc = "done" /\ req[r2].response.kind = "decision"
        /\ ~req[r2].cached
        /\ misses = 1 /\ hits = 0
        /\ Len(cache) = 1

(***************************************************************************)
(* Properties of the key ring and of token validation.                     *)
(***************************************************************************)
IsKey(o) == o \in Kids
Returned(t) == jv[t].pc = "returned"

\* C14: within one get_signing_key call a lookup that raises
\* PyJWKClientError is followed by exactly one forced refresh and exactly one
\* retry; a retry that fails too propagates, with no further refresh or
\* retry; a lookup that succeeds at once forces no refresh.
C14_OneRefreshOneRetry ==
    \A t \in Callers :
        /\ jv[t].forced <= 1 /\ jv[t].lookups <= 2
        /\ Returned(t) =>
              /\ IsKey(jv[t].first) =>
                    jv[t].forced = 0 /\ jv[t].lookups = 1 /\ jv[t].key = jv[t].first
              /\ jv[t].first = "PyJWKClientError" =>
                    /\ jv[t].forced = 1 /\ jv[t].lookups = 2
                    /\ IsKey(jv[t].second) => jv[t].key = jv[t].second
                    /\ ~IsKey(jv[t].second) =>
                          /\ jv[t].exc = jv[t].second
                          /\ jv[t].result.type = "JWTValidationError"
C14_Witness ==
    \E t, u \in Callers :
        /\ Returned(t) /\ jv[t].first = "PyJWKClientError" /\ IsKey(jv[t].second)
        /\ jv[t].result.type = "claims"
        /\ Returned(u) /\ jv[u].first = "PyJWKClientError" /\ jv[u].second = "PyJWKClientError"
        /\ jv[u].forced = 1

\* C15: when concurrent get_signing_key callers find the same key missing (or
\* the key source stale) at the same time, one refresh executes for all of
\* them: of the callers' forced refreshes at most one runs, and of their
\* refreshes of a stale source at most one.
Together(t, u) ==
    /\ t # u
    /\ Returned(t) /\ Returned(u)
    /\ jv[t].overlapped /\ jv[u].overlapped
    /\ jv[t].token = jv[u].token
    /\ now = jv[t].beganAt /\ now = jv[u].beganAt
C15_SingleFlightRefresh ==
    \A t, u \in Callers :
        Together(t, u) =>
            /\ jv[t].forced + jv[u].forced <= 1
            /\ jv[t].ensured + jv[u].ensured <= 1

\* C16: validate(token) returns claims only if the signature verifies with the
\* key the key ring gave for the token, the issuer is the configured one, and
\* exp and iat are present and valid; the audience is checked exactly when an
\* expected audience is configured.
AudienceSet == kr.audience # None
SoundButAudience(t) ==
    /\ ~jv[t].token.malformed
    /\ jv[t].key = jv[t].token.kid
    /\ jv[t].token.sig = "ok"
    /\ jv[t].token.iss = Issuer
    /\ jv[t].token.exp = "valid"
    /\ jv[t].token.iat = "valid"
C16_ValidateChecks ==
    \A t \in Callers :
        Returned(t) =>
            /\ jv[t].result.type = "claims" =>
                  /\ SoundButAudience(t)
                  /\ AudienceSet => jv[t].token.aud = kr.audience
            /\ (~AudienceSet /\ SoundButAudience(t) /\ jv[t].token.sub # "missing") =>
                  jv[t].result.type = "claims"
C16_Witness ==
    \E t \in Callers :
        /\ Returned(t)
        /\ jv[t].result.type = "claims"
        /\ ~AudienceSet
        /\ jv[t].token.aud = "missing"

\* C17: every failure of validate is a JWTValidationError whose message tells
\* expired, invalid issuer, invalid audience, malformed / invalid signature
\* (invalid token) and generic failure apart; a key lookup that still fails
\* after the retry is one of them (generic); nothing else leaves validate.
Kinds == {"Token has expired", "Invalid issuer", "Invalid audience", "Invalid token",
          "Validation failed"}
LookupFailedTwice(t) == jv[t].first = "PyJWKClientError" /\ jv[t].second = "PyJWKClientError"
KindFits(t, kind) ==
    LET token == jv[t].token
    IN  /\ kind = "Token has expired" => (jv[t].key # None /\ token.exp = "expired")
        /\ kind = "Invalid issuer" => (jv[t].key # None /\ token.iss = "other")
        /\ kind = "Invalid audience" =>
              (jv[t].key # None /\ AudienceSet /\ token.aud \notin {kr.audience, "missing"})
        /\ kind = "Invalid token" =>
              \/ token.malformed
              \/ token.sig = "bad"
              \/ "missing" \in {token.exp, token.iat, token.sub, token.iss}
              \/ token.iat = "invalid"
              \/ AudienceSet /\ token.aud = "missing"
        /\ kind = "Validation failed" => LookupFailedTwice(t)
C17_TypedFailures ==
    \A t \in Callers :
        Returned(t) =>
            /\ jv[t].result.type \in {"claims", "JWTValidationError"}
            /\ jv[t].result.type = "JWTValidationError" =>
                  /\ jv[t].result.message \in Kinds
                  /\ KindFits(t, jv[t].result.message)
            /\ LookupFailedTwice(t) => jv[t].result = JWTValidationError("Validation failed")
C17_Witness ==
    \E t \in Callers :
        /\ Returned(t)
        /\ LookupFailedTwice(t)
        /\ jv[t].result = JWTValidationError("Validation failed")


\* C18: with audit on, every finished Authorize invocation, whether it ended
\* in a Decision, in an evaluation error or in a routing failure (resource
\* type without a policy package), has emitted exactly one audit event, and
\* no invocation ever emits more than one.
EventsOf(r) == {n \in 1..Len(audit) : audit[n].request_id = r}
C18_OneAuditEvent ==
    \A r \in Requests :
        /\ Cardinality(EventsOf(r)) <= 1
        /\ (cfg.audit_enabled /\ req[r].pc = "done") => Cardinality(EventsOf(r)) = 1

\* C19: a failure of the audit sink never changes the outcome: an invocation
\* whose evaluation (or cache) produced a Decision answers with that Decision,
\* and one whose evaluation raised answers with the evaluation's error.
DecisionResponse(d) == [kind |-> "decision", allowed |-> d.allowed, reason |-> d.reason]
EvaluationError == [kind |-> "error", status |-> 500, error |-> "PolicyEngineError"]
Outcome(r) ==
    IF req[r].raised THEN EvaluationError
    ELSE IF req[r].decision # NoDecision THEN DecisionResponse(req[r].decision)
    ELSE req[r].response
C19_SinkFailureHarmless ==
    \A r \in Requests :
        req[r].pc = "done" => req[r].response = Outcome(r)

\* C20: with audit disabled log_decision and log_error emit nothing, no
\* invocation fails in the sink, and every invocation answers with what its
\* evaluation produced, which is what it answers with audit enabled.
C20_DisabledAuditSilent ==
    /\ ~cfg.audit_enabled =>
          /\ audit = <<>>
          /\ \A r \in Requests : req[r].error # SinkError
    /\ \A r \in Requests :
          (req[r].pc = "done" /\ req[r].error # SinkError) => req[r].response = Outcome(r)
C20_Witness ==
    /\ ~cfg.audit_enabled
    /\ audit = <<>>
    /\ \E r \in Requests :
          /\ req[r].pc = "done"
          /\ req[r].decision # NoDecision
          /\ req[r].response = DecisionResponse(req[r].decision)
    /\ \E r \in Requests :
          /\ req[r].pc = "done"
          /\ req[r].raised
          /\ req[r].response = EvaluationError


\* C21: Resolve(store, resourceType) returns the specialized package of the
\* resource type when the store has it, otherwise the generic fallback
\* package when the store has that, and fails (no package) otherwise.
Specialized(via, type) ==
    IF via = "route" /\ type \in RouteTypes THEN PolicyMap(type)
    ELSE IF via = "api" /\ type \in ApiTypes THEN PolicyMap(type)
    ELSE None
Resolve(via, store, type) ==
    IF Specialized(via, type) \in store THEN Specialized(via, type)
    ELSE IF PkgGeneric \in store THEN PkgGeneric
    ELSE None
C21_ResolveWithFallback ==
    fn.op = "resolve" => fn.out = Resolve(fn.via, fn.store, fn.type)


\* C22: every MQTT access mask decodes to a non-empty action list holding
\* subscribe iff bit 0x04 is set, publish iff bit 0x02 is set and read iff
\* bit 0x01 is set, in the order subscribe, publish, read; a mask with none
\* of the three bits decodes to the single action "unknown".
Holds(seq, name) == \E n \in 1..Len(seq) : seq[n] = name
InOrder(seq) ==
    \A m, n \in 1..Len(seq) :
        m < n => <<seq[m], seq[n]>> \in {<<"subscribe", "publish">>, <<"subscribe", "read">>,
                                        <<"publish", "read">>}
DecodesMask(acc, out) ==
    /\ out # <<>>
    /\ Holds(out, "subscribe") <=> Bit(acc, 4)
    /\ Holds(out, "publish") <=> Bit(acc, 2)
    /\ Holds(out, "read") <=> Bit(acc, 1)
    /\ InOrder(out)
    /\ (~Bit(acc, 4) /\ ~Bit(acc, 2) /\ ~Bit(acc, 1)) <=> out = <<"unknown">>
    /\ \A n \in 1..Len(out) : out[n] \in {"subscribe", "publish", "read", "unknown"}
C22_MaskDecoding ==
    fn.op = "acc" => DecodesMask(fn.acc, fn.out)
\* the decoder of the MQTT auth service alone (it holds there)
AuthServiceDecoding ==
    (fn.op = "acc" /\ fn.via = "mqtt_auth") => DecodesMask(fn.acc, fn.out)


\* The actions an access mask stands for: subscribe (0x04), publish (0x02),
\* read (0x01), in that order; "unknown" when none of the bits is set.
MaskActions(acc) ==
    LET s == IF (acc \div 4) % 2 = 1 THEN <<"subscribe">> ELSE <<>>
        p == IF (acc \div 2) % 2 = 1 THEN <<"publish">> ELSE <<>>
        r == IF acc % 2 = 1 THEN <<"read">> ELSE <<>>
    IN  IF s \o p \o r = <<>> THEN <<"unknown">> ELSE s \o p \o r
AclAnswered == mq.pc = "done" /\ mq.op = "acl"
AclEvaluated == AclAnswered /\ mq.actions # <<>>
StopsAtFirstDenial ==
    LET expected == MaskActions(mq.acc)
        ev == mq.evaluated
    IN  /\ Len(ev) \in 1..Len(expected)
        /\ \A n \in 1..Len(ev) : ev[n].action = expected[n]
        /\ \A n \in 1..(Len(ev) - 1) : ev[n].outcome = "allow"
        /\ ev[Len(ev)].outcome = "deny" =>
              (~mq.response.ok /\ mq.response.reason = MqDecision(ev[Len(ev)].action).reason)
        /\ mq.response.ok <=> (Len(ev) = Len(expected) /\ ev[Len(ev)].outcome = "allow")

\* C23: the MQTT ACL check evaluates the actions of the mask one at a time in
\* the order subscribe, publish, read, stops at the first denial and answers
\* with it, and answers "allowed" only when every action of the mask was
\* evaluated, once, and allowed.
C23_StopsAtFirstDenial == AclEvaluated => StopsAtFirstDenial
\* the same for the MQTT auth service alone (it holds there)
AuthServiceStopsAtFirstDenial ==
    (AclEvaluated /\ mq.via = "mqtt_auth") => StopsAtFirstDenial

AllEvaluatedAllowed ==
    \A k \in 1..Len(MaskActions(mq.acc)) :
        \E n \in 1..Len(mq.evaluated) :
            mq.evaluated[n] = [action |-> MaskActions(mq.acc)[k], outcome |-> "allow"]
EvaluationRaised == \E n \in 1..Len(mq.evaluated) : mq.evaluated[n].outcome = "raise"

\* C24: the MQTT ACL check allows only if the token is present and valid
\* (accepted by the validation the service is configured with) and every
\* action of the mask was evaluated and allowed; a missing or invalid token,
\* or an exception while evaluating an action, gives a denial.
C24_MqttFailClosed ==
    AclAnswered =>
        /\ mq.response.ok => (HasSubject(mq) /\ AllEvaluatedAllowed)
        /\ EvaluationRaised => ~mq.response.ok
\* the same for the MQTT auth service alone (it holds there)
AuthServiceFailClosed ==
    (AclAnswered /\ mq.via = "mqtt_auth") =>
        /\ mq.response.ok => (HasSubject(mq) /\ AllEvaluatedAllowed)
        /\ EvaluationRaised => ~mq.response.ok

\* C25: the superuser check answers true only for a present, valid token
\* whose subject satisfies the superuser rule (or carries the superuser
\* scope), false for a missing or invalid token and when the check fails; it
\* leaves the decision cache and its counters unchanged and writes no audit
\* record.
SuperuserAnswered == mq.pc = "done" /\ mq.op = "superuser"
Satisfies == IF mq.via = "mqtt_auth" THEN SuperuserScope \in mq.scopes ELSE mq.rule = "true"
SuperuserFrame == mq.before = <<cache, hits, misses, audit>>
Received(r) == req[r].header.text # "unset"
TokenSound(token) ==
    /\ ~token.malformed
    /\ token.kid \in kr.idp
    /\ token.sig = "ok"
    /\ token.iss = Issuer
    /\ token.exp = "valid"
    /\ token.iat = "valid"
    /\ token.sub # "missing"
    /\ kr.audience # None => token.aud = kr.audience
WellFormedHeader(h) == h.parts = 2 /\ h.scheme \in {"Bearer", "bearer"}
Is401(r) == req[r].pc = "done" /\ req[r].response.kind = "error" /\ req[r].response.status = 401
Untouched(r) ==
    /\ req[r].pkg = None
    /\ req[r].input = NoDecision
    /\ req[r].decision = NoDecision
    /\ req[r].evaluated = NoDecision
    /\ ~req[r].cached /\ ~req[r].raised
    /\ \A n \in 1..Len(audit) : audit[n].request_id # r
LoadFailed == ld.pc = "returned" /\ ld.status = "error"
NoDecisionYet ==
    \A r \in Requests :
        /\ req[r].decision = NoDecision
        /\ req[r].response.kind # "decision"
        /\ req[r].pc = "done" => req[r].raised
C27_LoadAllOrNothing ==
    /\ LoadFailed => ~eng.loaded
    /\ ~ld.succeeded => NoDecisionYet
\* the same for the load() of a fresh engine alone (it holds there)
FirstLoadAllOrNothing ==
    /\ (LoadFailed /\ ~ld.succeeded) => (~eng.loaded /\ NoDecisionYet)
    /\ ~ld.succeeded => NoDecisionYet
FirstLoadWitness ==
    /\ LoadFailed
    /\ ~ld.succeeded
    /\ \E r \in Requests : req[r].pc = "done" /\ req[r].raised


\* C28: evaluate_decision returns allowed = true only when the allow rule
\* of the package yields the boolean true; when the rule is absent or
\* undefined the Decision has allowed = false.
DecisionComputed == fn.op = "evaluate" /\ fn.out # Raised
C28_AllowOnlyOnTrue ==
    DecisionComputed =>
        /\ fn.out.allowed => fn.yields = "true"
        /\ fn.yields = "undefined" => ~fn.out.allowed
\* the half of it about an absent or undefined rule (it holds)
UndefinedIsDenied ==
    (DecisionComputed /\ fn.yields = "undefined") => ~fn.out.allowed
UndefinedWitness == DecisionComputed /\ fn.yields = "undefined" /\ fn.content = {}


\* C29: the subject is a service exactly when the claims carry client_id or
\* the username starts with "service-account-"; its id is the first present
\* of client_id, azp, the username without the prefix, sub; otherwise it is
\* a user with the id of sub, or of the username when sub is missing.
Extracted == fn.op = "extract"
IsServiceAccount(claims) ==
    /\ claims.preferred_username.type = "str"
    /\ claims.preferred_username.text # <<>>
    /\ Head(claims.preferred_username.text) = ServiceAccountPrefix
StringIds(claims) == \A k \in {"sub", "client_id", "azp", "preferred_username"} : claims[k].type \in {"absent", "str"}
ServiceExpected(claims) == claims.client_id # Absent \/ IsServiceAccount(claims)
IdExpected(claims) ==
    IF ServiceExpected(claims)
    THEN IF claims.client_id # Absent THEN claims.client_id.text
         ELSE IF claims.azp # Absent THEN claims.azp.text
         ELSE Tail(claims.preferred_username.text)
    ELSE IF claims.sub # Absent THEN claims.sub.text
         ELSE IF claims.preferred_username # Absent THEN claims.preferred_username.text
         ELSE <<"unknown">>
C29_ServiceOrUser ==
    (Extracted /\ StringIds(fn.claims)) =>
        /\ fn.out.type = (IF ServiceExpected(fn.claims) THEN "service" ELSE "user")
        /\ fn.out.id = IdExpected(fn.claims)
\* the part of it about claims with client_id, or with sub and no
\* service-account username (it holds)
ByClientIdOrSub ==
    (Extracted /\ StringIds(fn.claims)
       /\ (fn.claims.client_id # Absent \/ (fn.claims.sub # Absent /\ ~IsServiceAccount(fn.claims)))) =>
        /\ fn.out.type = (IF ServiceExpected(fn.claims) THEN "service" ELSE "user")
        /\ fn.out.id = IdExpected(fn.claims)
ByClientIdWitness ==
    /\ Extracted
    /\ fn.claims.client_id = Str(<<"svc-1">>)
    /\ fn.claims.sub = Str(<<"user-1">>)
    /\ fn.out # ValidationError
    /\ fn.out.type = "service"

\* C30: extract is total: it returns a Subject for every claims map and
\* never raises; groups or scopes of the wrong type give none, and claims
\* naming no subject give the id "unknown".
C30_ExtractTotal ==
    Extracted =>
        /\ fn.out # ValidationError
        /\ fn.claims.groups.type \notin {"absent", "list"} => fn.out.groups = <<>>
        /\ fn.claims.scope.type \notin {"absent", "str", "list"} => fn.out.scopes = <<>>
        /\ (\A k \in {"sub", "client_id", "azp", "preferred_username"} : fn.claims[k] = Absent)
              => fn.out.id = <<"unknown">>
\* the same when sub and client_id are strings or missing (it holds)
TotalOnStringIds ==
    (Extracted /\ StringIds(fn.claims)) =>
        /\ fn.out # ValidationError
        /\ fn.claims.groups.type \notin {"absent", "list"} => fn.out.groups = <<>>
        /\ fn.claims.scope.type \notin {"absent", "str", "list"} => fn.out.scopes = <<>>
        /\ (\A k \in {"sub", "client_id", "azp", "preferred_username"} : fn.claims[k] = Absent)
              => fn.out.id = <<"unknown">>
BadTypesWitness ==
    /\ Extracted
    /\ fn.claims.groups = Str(<<"not-a-list">>)
    /\ fn.claims.scope = Number
    /\ fn.claims.sub = Absent
    /\ fn.out # ValidationError
    /\ fn.out.id = <<"unknown">>


\* C31: every invocation passes through token validation (or anonymous) and
\* route resolution, then a cache hit or the evaluation, then the audit,
\* then completion; the evaluator runs at most once per invocation and not
\* at all on a cache hit; an error at any step goes to the audit and then
\* to completion, and the step is not retried.
PipelineOrder ==
    {<<"idle", "lookup">>, <<"lookup", "log_decision">>, <<"lookup", "evaluate">>,
     <<"evaluate", "cache_set">>, <<"cache_set", "log_decision">>, <<"log_decision", "respond">>,
     <<"respond", "done">>}
ErrorOrder ==
    {<<"idle", "log_error">>, <<"lookup", "log_error">>, <<"evaluate", "log_error">>,
     <<"cache_set", "log_error">>, <<"log_error", "respond_error">>, <<"respond_error", "done">>}
Audited(log, r) == \E n \in 1..Len(log) : log[n].request_id = r
EvaluatorRuns(r) == req[r].evalTree = <<>> /\ req'[r].evalTree # <<>>
InOrderStep(r, order) ==
    /\ req'[r].pc # req[r].pc => <<req[r].pc, req'[r].pc>> \in order
    /\ EvaluatorRuns(r) => (req[r].pc = "evaluate" /\ ~req[r].cached)
    /\ req[r].evalTree # <<>> => req'[r].evalTree = req[r].evalTree
    /\ req'[r].cached => req'[r].evalTree = <<>>
    /\ (req'[r].pc = "done" /\ req[r].pc # "done")
         => (req'[r].response.kind \in {"decision", "error"} /\ Audited(audit', r))
C31_PipelineOrder == [][\A r \in Requests : InOrderStep(r, PipelineOrder \cup ErrorOrder)]_vars
\* the same, with the answers 401 of get_subject and 400 of
\* _get_policy_package given before the audited block is entered (it holds)
Rejected(r) == req'[r].response.kind = "error" /\ req'[r].response.status \in {400, 401}
AuditedBlockOrder ==
    [][\A r \in Requests :
          IF req[r].pc = "idle" /\ req'[r].pc = "done"
          THEN Rejected(r) /\ ~Audited(audit', r) /\ req'[r].evalTree = <<>>
          ELSE InOrderStep(r, PipelineOrder \cup ErrorOrder)]_vars
AuditedBlockWitness ==
    /\ req["a"].pc = "done" /\ req["a"].cached = FALSE /\ req["a"].response.kind = "decision"
    /\ req["b"].pc = "done" /\ req["b"].cached /\ req["b"].evalTree = <<>>


\* C38: under concurrent evaluate_decision and evaluate calls on one
\* engine, every query of a call runs against the input that call set, and
\* the allow, reason and filters of its Decision are those of its own input.
OwnInputOnly(r) == req[r].seen \subseteq {req[r].input}
C38_OwnInput ==
    \A r \in Requests :
        /\ OwnInputOnly(r)
        /\ (req[r].pc = "done" /\ req[r].decision # NoDecision)
             => req[r].decision = evaluate_decision(req[r].evalContent, req[r].pkg, req[r].input)
C38_Witness ==
    /\ req["a"].pc = "filters" /\ lock = "a"
    /\ req["b"].pc = "acquire"
    /\ req["b"].input # req["a"].input
    /\ eng.input = req["a"].input


\* C32: an evaluation that starts while a reload is in progress completes
\* against the old store without waiting for the reload to finish, and a
\* reload does not wait for the evaluations in flight.
Evaluating(r) == req[r].pc \in {"set_input", "allow", "reason", "filters"}
CanReload == ld.pc # "loading" /\ eng.version < MaxReloads
C32_NoWaiting ==
    /\ \A r \in Requests :
          (req[r].pc = "acquire" /\ ld.pc = "loading") => ENABLED Acquire(r)
    /\ \A r \in Requests :
          (Evaluating(r) /\ ld.pc = "loading") => req[r].evalContent = ld.before.content
    /\ (CanReload /\ \E r \in Requests : Evaluating(r)) => ENABLED LoadBegin(Tree1)
\* what the lock gives instead: an evaluation and a reload never overlap
LockExcludes ==
    /\ \A r \in Requests : Evaluating(r) => (lock = r /\ ld.pc # "loading")
    /\ ld.pc = "loading" => lock = "reload"
LockWitness == ld.pc = "loading" /\ req["a"].pc = "acquire" /\ req["b"].pc = "done"


\* C35: get_signing_key replaces the PyJWKClient before the lookup exactly
\* when there is none yet or the last fetch is older than the TTL; within
\* the TTL a call whose lookup succeeds refreshes nothing.
Stale == kr.client = 0 \/ now - kr.last_fetch > JwksTtl
Enters(t) == jv[t].pc = "waiting" /\ jv'[t].pc = "lookup"
FoundAtOnce(t) ==
    jv[t].pc \in {"decode", "returned"} /\ jv[t].first \notin {None, "PyJWKClientError", "DecodeError"}
C35_RefreshWhenStale ==
    [][\A t \in Callers :
          /\ Enters(t) =>
                /\ kr'.refreshes = kr.refreshes + (IF Stale THEN 1 ELSE 0)
                /\ kr'.client = kr.client + (IF Stale THEN 1 ELSE 0)
                /\ kr'.last_fetch = (IF Stale THEN now ELSE kr.last_fetch)
                /\ jv'[t].ensured = (IF Stale THEN 1 ELSE 0)
          /\ (FoundAtOnce(t) /\ jv[t].pc = "decode" /\ jv[t].ensured = 0)
                => (jv'[t].forced = 0 /\ jv'[t].lookups = 1)]_vars
C35_Witness ==
    /\ jv["a"].pc = "returned" /\ FoundAtOnce("a") /\ jv["a"].ensured = 0 /\ jv["a"].forced = 0
    /\ jv["b"].pc = "lookup" /\ jv["b"].ensured = 1
    /\ kr.last_fetch = now /\ kr.refreshes = 1 /\ kr.client = 2


\* C36: an absent or failing reason or filters rule does not make
\* evaluate_decision raise: the Decision comes back with reason "" or with
\* no filters; only a failure of the allow query is raised.
EvaluateCalled == fn.op = "evaluate"
C36_OnlyAllowRaises ==
    EvaluateCalled =>
        /\ fn.out = Raised <=> fn.yields = "error"
        /\ (fn.out # Raised /\ fn.reason \in {"undefined", "error"}) => fn.out.reason = ""
        /\ (fn.out # Raised /\ fn.fails) => fn.out.filters = <<>>
\* the same for an absent reason rule and for an absent or failing filters
\* rule (it holds)
OptionalRulesTolerated ==
    (EvaluateCalled /\ fn.reason # "error") =>
        /\ fn.out = Raised <=> fn.yields = "error"
        /\ (fn.out # Raised /\ fn.reason = "undefined") => fn.out.reason = ""
        /\ (fn.out # Raised /\ fn.fails) => fn.out.filters = <<>>
OptionalRulesWitness ==
    EvaluateCalled /\ fn.fails /\ fn.out # Raised /\ fn.out.reason = "ok" /\ fn.out.allowed

\* C37: the filters of a Decision are the elements of the policy's filters
\* list that have all of field, operator and value, in their order; an
\* element without one of the three is skipped.
Complete(f) == {"field", "operator", "value"} \subseteq DOMAIN f
RECURSIVE ExtractComplete(_)
ExtractComplete(value) ==
    IF value = <<>> THEN <<>>
    ELSE (IF IsDict(Head(value)) /\ Complete(Head(value)) THEN <<FilterPredicate(Head(value))>> ELSE <<>>)
         \o ExtractComplete(Tail(value))
C37_CompleteFiltersOnly ==
    (EvaluateCalled /\ fn.out # Raised /\ ~fn.fails) => fn.out.filters = ExtractComplete(fn.filters)
\* what holds instead: one filter per element that is an object, in order
OneFilterPerObject ==
    (EvaluateCalled /\ fn.out # Raised /\ ~fn.fails) =>
        /\ Len(fn.out.filters) = Len(SelectSeq(fn.filters, IsDict))
        /\ \A n \in 1..Len(fn.out.filters) :
              \A key \in DOMAIN SelectSeq(fn.filters, IsDict)[n] :
                  fn.out.filters[n][key] = SelectSeq(fn.filters, IsDict)[n][key]
OneFilterWitness == EvaluateCalled /\ fn.filters = RowsList /\ fn.out # Raised /\ Len(fn.out.filters) = 3


\* C33: when Set inserts a new key into a full cache that holds no expired
\* entry, the entry that goes is the least recently used one, a Set and a
\* Get that returned a Decision both counting as a use of their key.
Inserts == last'.op = "set" /\ cache' # cache /\ last'.key \notin Keys(cache)
FullAndLive == Len(cache) = MaxSize /\ \A n \in 1..Len(cache) : now < cache[n].expires
C33_EvictsLeastRecentlyUsed ==
    [][(Inserts /\ FullAndLive) =>
          /\ Keys(cache') = (Keys(cache) \ {Head(last.uses)}) \cup {last'.key}
          /\ Len(cache') = MaxSize]_vars
C33_Witness ==
    /\ last.op = "set" /\ last.evicted = 1 /\ hits = 1
    /\ Len(cache) = MaxSize
    /\ cache[1].src.at < cache[2].src.at

\* C34: hits + misses is the number of completed Get calls: a Get adds one
\* to hits if it returned a Decision and one to misses otherwise; Set,
\* Invalidate and Stats change neither counter.
C34_CountersCountGets ==
    [][/\ hits' + misses' = last'.gets
       /\ IF last'.gets = last.gets + 1
          THEN /\ last'.op = "get"
               /\ hits' = hits + (IF last'.result # NoDecision THEN 1 ELSE 0)
               /\ misses' = misses + (IF last'.result # NoDecision THEN 0 ELSE 1)
          ELSE hits' = hits /\ misses' = misses /\ last'.gets = last.gets]_vars
C34_Witness ==
    /\ last.op = "stats" /\ last.count = 2
    /\ hits = 1 /\ misses = 1
    /\ cache = <<>>

\* C40: no Decision is served from the cache ttl or more after the Set that
\* stored it: a hit does not extend the entry's lifetime, a new Set of the
\* key restarts it.
C40_LifetimeFromSet ==
    /\ (last.op = "get" /\ last.result # NoDecision) => last.at < last.src.at + TtlSeconds
    /\ \A n \in 1..Len(cache) : cache[n].expires = cache[n].src.at + TtlSeconds
C40_Witness ==
    /\ last.op = "get" /\ last.result # NoDecision
    /\ hits = 2
    /\ last.src.at > 0
    /\ last.at = last.src.at + TtlSeconds - 1


\* C39: with cached evaluations and invalidate_cache running concurrently,
\* once invalidate_cache(P) has returned no Get for package P returns a
\* Decision whose evaluation was made before that call.
StoredBy == last.src.input["environment"]["request_id"]
C39_NoStaleAfterInvalidate ==
    (last.op = "get" /\ last.result # NoDecision) => ~req[StoredBy].overtaken
\* the entries invalidate_cache finds are gone when it returns: a Get right
\* after it is a miss (it holds)
InvalidateThenMiss ==
    [][(last.op = "invalidate" /\ last'.op = "get" /\ last.policy \in {None, last'.policy})
          => last'.result = NoDecision]_vars
InvalidateThenMissWitness ==
    /\ last.op = "get" /\ last.result = NoDecision /\ last.gets = 2
    /\ \E r \in Requests :
          /\ req[r].pc = "done" /\ req[r].decision # NoDecision /\ ~req[r].cached
          /\ ~req[r].undisturbed
          /\ make_key(req[r].pkg, req[r].input) = last.key

====
